---------------------------- MODULE Spec2Model ----------------------------
(***************************************************************************)
(* Hours, expenses and reporting logic of the time-tracking application:   *)
(* the duration calculators of the entry form, the admin view, the         *)
(* activity dashboard and the invoice generator, the overage confirmation  *)
(* of the entry form, the report aggregations and the CSV cell writer.     *)
(*                                                                         *)
(* Representation.  A time of day "HH:mm" is the pair <<HH, mm>>; a null   *)
(* column is the empty tuple.  A decimal hour count produced by toFixed(2) *)
(* is held in hundredths of an hour (7.5 is 750); an hour count that the   *)
(* code leaves as minutes / 60 is held as its number of minutes.           *)
(***************************************************************************)
EXTENDS Integers, Sequences, FiniteSets, TLC

VARIABLES
    calcIn,        \* the entry handed to the duration calculators
    calcOut,       \* what calculateEntryHours / calculateTotalHours returned
    conf,          \* the session: isAdmin, the values the inputs are sampled at
    entries,       \* TimeEntriesPage: the entries of the form
    isSubmitting,  \* TimeEntriesPage: the isSubmitting flag
    sub,           \* the handleSubmit call in progress: position of its loop
    batch,         \* the entries array that call iterates over
    call,          \* the handleSubmit call just made: entries, prompt, answer
    alerts,        \* the alert() messages of the latest handleSubmit call
    time_entries,  \* table time_entries
    expenses,      \* table expenses
    retailers,     \* table retailers
    uploads,       \* number of objects written to the receipts bucket
    budget,        \* submissions and in-flight edits made so far
    view,          \* Dashboard: the active tab and the state of its page
    csvRow,        \* the fields of the entry handed to a CSV export
    csvFile,       \* the lines the export wrote
    worksheet,     \* EstimateWorksheetPage: the state of the page
    estimate_worksheets,  \* table estimate_worksheets
    estWrite,      \* the writes to estimate_worksheets in flight
    sessions       \* two browsers: where the handleSubmit of each stands

calcVars == <<calcIn, calcOut>>
formVars == <<conf, entries, isSubmitting, sub, batch, call, alerts, budget>>
dbVars   == <<time_entries, expenses, retailers, uploads>>
csvVars == <<csvRow, csvFile>>
estVars == <<worksheet, estimate_worksheets, estWrite>>
vars == <<calcVars, formVars, dbVars, view, csvVars, estVars, sessions>>

-----------------------------------------------------------------------------
(* Values *)

Null == <<>>

\* LUNCH_BREAK_OPTIONS: '00:30', '00:45', '01:00'
LUNCH_BREAK_OPTIONS == {<<0, 30>>, <<0, 45>>, <<1, 0>>}

\* the hour and minute fields the time inputs are sampled at
SampleHours == {8, 9, 16, 17}
SampleMinutes == {0, 10, 30}
Times == {<<h, m>> : h \in SampleHours, m \in SampleMinutes}

-----------------------------------------------------------------------------
(* Duration calculators *)

\* differenceInMinutes(parseISO(`2000-01-01T${end}`), parseISO(`2000-01-01T${start}`))
differenceInMinutes(endTime, startTime) ==
    (endTime[1] * 60 + endTime[2]) - (startTime[1] * 60 + startTime[2])

\* const [hours, mins] = lunch_break.split(':').map(Number); hours * 60 + mins
lunchMinutes(lunch_break) == lunch_break[1] * 60 + lunch_break[2]

\* A variant of toFixed2 that cuts the third decimal instead of rounding.
toFixed2Truncating(minutes) ==
    IF minutes >= 0 THEN (minutes * 100) \div 60
    ELSE -(((-minutes) * 100) \div 60)

\* Number((minutes / 60).toFixed(2)), in hundredths of an hour.  minutes / 60
\* is never half-way between two hundredths (10 * minutes is even, 6 * n + 3
\* is odd), so toFixed picks the nearest hundredth.
toFixed2(minutes) == (10 * minutes + 3) \div 6

\* A variant of calculateEntryHours without the full-day rule.
calculateEntryHoursFromTimes(entry) ==
    LET minutes == differenceInMinutes(entry.end_time, entry.start_time)
        worked  == IF entry.has_lunch_break /\ entry.lunch_break # Null
                   THEN minutes - lunchMinutes(entry.lunch_break)
                   ELSE minutes
    IN  toFixed2(worked)

\* A variant of calculateEntryHours that returns 0 for a negative duration.
calculateEntryHoursClamped(entry) ==
    IF entry.is_full_day
    THEN IF entry.has_lunch_break /\ entry.lunch_break # Null THEN 750 ELSE 800
    ELSE LET minutes == differenceInMinutes(entry.end_time, entry.start_time)
             worked  == IF entry.has_lunch_break /\ entry.lunch_break # Null
                        THEN minutes - lunchMinutes(entry.lunch_break)
                        ELSE minutes
         IN  IF worked < 0 THEN 0 ELSE toFixed2(worked)

\* TimeEntriesPage.calculateEntryHours
calculateEntryHours(entry) ==
    IF entry.is_full_day
    THEN IF entry.has_lunch_break /\ entry.lunch_break # Null THEN 750 ELSE 800
    ELSE LET minutes == differenceInMinutes(entry.end_time, entry.start_time)
             worked  == IF entry.has_lunch_break /\ entry.lunch_break # Null
                        THEN minutes - lunchMinutes(entry.lunch_break)
                        ELSE minutes
         IN  toFixed2(worked)

\* AdminPage.calculateTotalHours
calculateTotalHours(entry) ==
    IF entry.is_full_day
    THEN IF entry.lunch_break # Null THEN 750 ELSE 800
    ELSE LET minutes == differenceInMinutes(entry.end_time, entry.start_time)
             worked  == IF entry.lunch_break # Null
                        THEN minutes - lunchMinutes(entry.lunch_break)
                        ELSE minutes
         IN  toFixed2(worked)

\* The time fields of an entry of the form: the lunch checkbox handler keeps
\* lunch_break null exactly when has_lunch_break is false.
CalcInputs ==
    {[is_full_day |-> f, start_time |-> s, end_time |-> e,
      has_lunch_break |-> (l # Null), lunch_break |-> l] :
        f \in BOOLEAN, s \in Times, e \in Times,
        l \in LUNCH_BREAK_OPTIONS \cup {Null}}

\* The same time fields as a time_entries row (no has_lunch_break column).
asRow(entry) ==
    [is_full_day |-> entry.is_full_day, start_time |-> entry.start_time,
     end_time |-> entry.end_time,
     lunch_break |-> IF entry.has_lunch_break THEN entry.lunch_break ELSE Null]

NotComputed == [done |-> FALSE, entryHours |-> 0, totalHours |-> 0]

-----------------------------------------------------------------------------
(* TimeEntriesPage: the entry form *)

\* bounds of the exploration
MaxEntries == 2       \* entries in the form
MaxExpenses == 1      \* expenses in the form
MaxSubmits == 1       \* handleSubmit calls that reach the write loop

\* retailer_id: null
NoId == 0

\* a null date and a null location
NoDate == 0
NoLocation == "(null)"

\* the columns of expenses an insert leaves out are null
nullExpenseColumns ==
    [time_entry_id |-> NoId, date |-> NoDate, location |-> NoLocation]

\* the page of the entry form
EntryFormMounted == [activeTab |-> "enter-activity"]

\* no export has been asked for
NoCsvRow == [none |-> TRUE]
NotExported == [by |-> "none", row |-> <<>>, lines |-> <<>>]

\* the estimate worksheet is not opened
NoWorksheet == [opened |-> FALSE]
EstimateIdle ==
    /\ worksheet = NoWorksheet
    /\ estimate_worksheets = <<>>
    /\ estWrite = <<>>

\* no second browser is open
NoSessions == <<>>

Today == 1

\* the profiles the admin's employee dropdown offers
Employees == {[id |-> "u1", full_name |-> "Ann"], [id |-> "u2", full_name |-> "Bob"]}

\* createDefaultEntry; id stands for crypto.randomUUID()
createDefaultEntry(id) ==
    [id |-> id, date |-> Today, is_full_day |-> TRUE,
     start_time |-> <<8, 0>>, end_time |-> <<16, 30>>, location |-> "",
     has_lunch_break |-> TRUE, lunch_break |-> <<0, 30>>,
     user_id |-> conf.userId, full_name |-> conf.full_name,
     expenses |-> <<>>]

\* createDefaultExpense
createDefaultExpense ==
    [amount |-> 0, retailer_id |-> NoId, retailer_name |-> ""]

\* a fresh uuid: the least id no live entry object carries
FreshId ==
    LET used == {entries[k].id : k \in DOMAIN entries}
                  \cup {batch[k].id : k \in DOMAIN batch}
    IN  CHOOSE n \in 1..(Cardinality(used) + 1) : n \notin used

\* The ids only tell the entry objects apart: while no call holds entry
\* objects, the entries of the form are numbered by position.
Canonical(es) ==
    IF batch = <<>> THEN [k \in DOMAIN es |-> [es[k] EXCEPT !.id = k]] ELSE es

NoCall == [made |-> FALSE, entries |-> <<>>, prompted |-> FALSE,
           list |-> <<>>, answer |-> FALSE, proceeded |-> FALSE]

\* the form may be edited: before the submissions of the session are used
\* up, and conf.flightEdits times while one is in flight
CanEdit ==
    IF sub.pc = "idle" THEN budget.submits < MaxSubmits
    ELSE budget.flightEdits < conf.flightEdits

\* call describes the handleSubmit call that has just been made
Edited ==
    /\ budget' = IF sub.pc = "idle" THEN budget
                 ELSE [budget EXCEPT !.flightEdits = @ + 1]
    /\ call' = NoCall

\* const newEntries = [...entries]; newEntries[i].<field> = ...; the entry
\* object is shared with the array a running handleSubmit iterates over
Mutated(arr, id, edited) ==
    [k \in DOMAIN arr |-> IF arr[k].id = id THEN edited ELSE arr[k]]

EditEntry(i, edited) ==
    /\ CanEdit
    /\ entries' = Mutated(entries, entries[i].id, edited)
    /\ batch' = Mutated(batch, entries[i].id, edited)
    /\ Edited
    /\ UNCHANGED <<conf, isSubmitting, sub, alerts, calcVars, view, csvVars, sessions, estVars, dbVars>>

\* the Type select
SetType(i, full) ==
    LET f(e) == [e EXCEPT !.is_full_day = full]
    IN  /\ entries[i].is_full_day # full
        /\ EditEntry(i, f(entries[i]))

\* the Start Time input, rendered for a partial-day entry
SetStartTime(i, t) ==
    LET f(e) == [e EXCEPT !.start_time = t]
    IN  /\ ~entries[i].is_full_day
        /\ entries[i].start_time # t
        /\ EditEntry(i, f(entries[i]))

\* the End Time input, rendered for a partial-day entry
SetEndTime(i, t) ==
    LET f(e) == [e EXCEPT !.end_time = t]
    IN  /\ ~entries[i].is_full_day
        /\ entries[i].end_time # t
        /\ EditEntry(i, f(entries[i]))

\* A variant of ToggleLunchBreak that leaves the lunch length as it is.
ToggleLunchBreakOnly(i) ==
    LET f(e) == [e EXCEPT !.has_lunch_break = ~@]
    IN  EditEntry(i, f(entries[i]))

\* the Lunch Break checkbox
ToggleLunchBreak(i) ==
    LET f(e) == [e EXCEPT !.has_lunch_break = ~@,
                          !.lunch_break = IF e.has_lunch_break THEN Null
                                          ELSE <<0, 30>>]
    IN  EditEntry(i, f(entries[i]))

\* the lunch length select, rendered when has_lunch_break
SelectLunchBreak(i, l) ==
    LET f(e) == [e EXCEPT !.lunch_break = l]
    IN  /\ entries[i].has_lunch_break
        /\ entries[i].lunch_break # l
        /\ EditEntry(i, f(entries[i]))

\* the Date input
SetDate(i, d) ==
    LET f(e) == [e EXCEPT !.date = d]
    IN  /\ entries[i].date # d
        /\ EditEntry(i, f(entries[i]))

\* the location input and handleLocationSelect
SetLocation(i, loc) ==
    LET f(e) == [e EXCEPT !.location = loc]
    IN  /\ entries[i].location # loc
        /\ EditEntry(i, f(entries[i]))

\* handleEmployeeSelect, offered to an admin
handleEmployeeSelect(i, p) ==
    LET f(e) == [e EXCEPT !.user_id = p.id, !.full_name = p.full_name]
    IN  /\ conf.isAdmin
        /\ entries[i].user_id # p.id
        /\ EditEntry(i, f(entries[i]))

\* number of expenses in the form
RECURSIVE CountExpenses(_)
CountExpenses(es) ==
    IF es = <<>> THEN 0 ELSE Len(Head(es).expenses) + CountExpenses(Tail(es))

FormExpenses == CountExpenses(entries)

\* addExpense: pushes onto the entry's own expenses array
addExpense(i) ==
    LET f(e) == [e EXCEPT !.expenses = Append(@, createDefaultExpense)]
    IN  /\ FormExpenses < conf.maxExpenses
        /\ EditEntry(i, f(entries[i]))

\* removeExpense: splices the entry's own expenses array
removeExpense(i, k) ==
    LET f(e) == [e EXCEPT !.expenses =
                    SubSeq(@, 1, k - 1) \o SubSeq(@, k + 1, Len(@))]
    IN  /\ k \in DOMAIN entries[i].expenses
        /\ EditEntry(i, f(entries[i]))

\* updateExpense with an amount or a typed retailer name
updateExpense(i, k, amount, name) ==
    LET f(e) == [e EXCEPT !.expenses[k] =
                    [@ EXCEPT !.amount = amount, !.retailer_name = name]]
    IN  /\ k \in DOMAIN entries[i].expenses
        /\ entries[i].expenses[k].amount # amount
             \/ entries[i].expenses[k].retailer_name # name
        /\ EditEntry(i, f(entries[i]))

\* the retailers the form fetched when it mounted (setRetailers(data))
fetchRetailers == conf.retailers

\* a button of the retailer dropdown: updateExpense with retailer_id and
\* retailer_name of retailer r
selectRetailer(i, k, r) ==
    LET f(e) == [e EXCEPT !.expenses[k] =
                    [@ EXCEPT !.retailer_id = r,
                              !.retailer_name = fetchRetailers[r]]]
    IN  /\ k \in DOMAIN entries[i].expenses
        /\ r \in DOMAIN fetchRetailers
        /\ entries[i].expenses[k].retailer_id # r
             \/ entries[i].expenses[k].retailer_name # fetchRetailers[r]
        /\ EditEntry(i, f(entries[i]))

\* addSameDayEntry
addSameDayEntry ==
    /\ CanEdit
    /\ Len(entries) < MaxEntries
    /\ entries' = Canonical(Append(entries, createDefaultEntry(FreshId)))
    /\ Edited
    /\ UNCHANGED <<conf, isSubmitting, sub, batch, alerts, calcVars, view, csvVars, sessions, estVars, dbVars>>

\* removeEntry
removeEntry(i) ==
    /\ CanEdit
    /\ entries' = Canonical(
                    IF Len(entries) = 1 THEN <<createDefaultEntry(FreshId)>>
                    ELSE SubSeq(entries, 1, i - 1) \o SubSeq(entries, i + 1, Len(entries)))
    /\ entries' # entries
    /\ Edited
    /\ UNCHANGED <<conf, isSubmitting, sub, batch, alerts, calcVars, view, csvVars, sessions, estVars, dbVars>>

\* clearForm, confirmed
clearForm ==
    /\ CanEdit
    /\ entries' = Canonical(<<createDefaultEntry(FreshId)>>)
    /\ entries' # entries
    /\ Edited
    /\ UNCHANGED <<conf, isSubmitting, sub, batch, alerts, calcVars, view, csvVars, sessions, estVars, dbVars>>

-----------------------------------------------------------------------------
(* TimeEntriesPage.handleSubmit *)

\* `${name} on ${date}: ${hours} hours`
promptLine(entry) ==
    <<IF conf.isAdmin THEN entry.full_name ELSE "this employee",
      entry.date, calculateEntryHours(entry)>>

\* A variant of entriesOver8Hours that also takes the entries of exactly 8 hours.
entriesFrom8Hours(es) ==
    SelectSeq(es, LAMBDA entry : calculateEntryHours(entry) >= 800)

\* entries.filter(entry => calculateEntryHours(entry) > 8)
entriesOver8Hours(es) ==
    SelectSeq(es, LAMBDA entry : calculateEntryHours(entry) > 800)

\* the lines of the confirm message
entryList(es) ==
    [k \in DOMAIN entriesOver8Hours(es) |-> promptLine(entriesOver8Hours(es)[k])]

\* the required inputs of the form are filled in (the browser blocks the
\* submit event otherwise)
FormValid ==
    \A i \in DOMAIN entries :
        /\ entries[i].location # ""
        /\ \A k \in DOMAIN entries[i].expenses :
              entries[i].expenses[k].retailer_name # ""

\* the object handed to from('time_entries').insert
timeEntryRow(entry) ==
    [date |-> entry.date,
     is_full_day |-> entry.is_full_day,
     start_time |-> IF entry.is_full_day THEN <<8, 0>> ELSE entry.start_time,
     end_time |-> IF entry.is_full_day THEN <<16, 30>> ELSE entry.end_time,
     location |-> entry.location,
     lunch_break |-> IF entry.has_lunch_break THEN entry.lunch_break ELSE Null,
     user_id |-> IF conf.isAdmin THEN entry.user_id ELSE conf.userId,
     full_name |-> IF conf.isAdmin THEN entry.full_name ELSE conf.full_name]

\* A variant of expenseRow that does not carry the id of the time entry.
expenseRowUnlinked(entry, expense, tid, retailerId) ==
    [time_entry_id |-> NoId,
     user_id |-> IF conf.isAdmin THEN entry.user_id ELSE conf.userId,
     amount |-> expense.amount,
     retailer_id |-> retailerId]

\* the object handed to from('expenses').insert
expenseRow(entry, expense, tid, retailerId) ==
    [time_entry_id |-> tid,
     user_id |-> IF conf.isAdmin THEN entry.user_id ELSE conf.userId,
     amount |-> expense.amount,
     retailer_id |-> retailerId]

\* A call in progress stands at an await: req is the request it waits for
\* (its arguments were evaluated when it was issued), expense the expense
\* object the inner loop holds.
Idle == [pc |-> "idle", idx |-> 0, exp |-> 0, timeEntryId |-> NoId,
         retailerId |-> NoId, expense |-> createDefaultExpense,
         req |-> [none |-> TRUE]]

\* the outer loop reaches entry idx and issues its insert
entryStep(es, idx) ==
    [Idle EXCEPT !.pc = "insert_entry", !.idx = idx, !.req = timeEntryRow(es[idx])]

\* the inner loop reaches expense k of entry idx:
\* let retailerId = expense.retailer_id; if (expense.retailer_name && !retailerId)
expenseStep(es, idx, k, tid) ==
    LET expense == es[idx].expenses[k]
        at == [Idle EXCEPT !.idx = idx, !.exp = k, !.timeEntryId = tid,
                           !.expense = expense]
    IN  IF expense.retailer_name # "" /\ expense.retailer_id = NoId
        THEN [at EXCEPT !.pc = "lookup_retailer",
                        !.req = [name |-> expense.retailer_name]]
        ELSE [at EXCEPT !.pc = "insert_expense",
                        !.retailerId = expense.retailer_id,
                        !.req = expenseRow(es[idx], expense, tid, expense.retailer_id)]

\* where the loops stand once expense k of entry idx is done (k = 0: the
\* entry has just been inserted); Idle when both loops are over
afterExpense(es, idx, k, tid) ==
    IF k < Len(es[idx].expenses) THEN expenseStep(es, idx, k + 1, tid)
    ELSE IF idx < Len(es) THEN entryStep(es, idx + 1)
         ELSE Idle

\* the rest of a step of the try block: the loops go on, or the call ends
\* with setEntries([createDefaultEntry()]), the success alert and finally
\* (the array the call iterated over is then no longer referenced)
Proceed(next) ==
    /\ sub' = next
    /\ IF next.pc = "idle"
       THEN /\ entries' = <<createDefaultEntry(1)>>
            /\ alerts' = Append(alerts, "Time entries and expenses submitted successfully!")
            /\ isSubmitting' = FALSE
            /\ batch' = <<>>
       ELSE UNCHANGED <<entries, alerts, isSubmitting, batch>>
    /\ UNCHANGED <<conf, call, budget, calcVars, view, csvVars, sessions, estVars>>

\* A variant of Failed that also resets the form.
FailedAndCleared ==
    /\ sub' = Idle
    /\ alerts' = Append(alerts, "Failed to submit entries. Please try again.")
    /\ isSubmitting' = FALSE
    /\ batch' = <<>>
    /\ entries' = <<createDefaultEntry(1)>>
    /\ UNCHANGED <<conf, call, budget, calcVars, view, csvVars, sessions, estVars, dbVars>>

\* A variant of Failed without the finally block.
FailedWithoutFinally ==
    /\ sub' = Idle
    /\ alerts' = Append(alerts, "Failed to submit entries. Please try again.")
    /\ batch' = <<>>
    /\ entries' = [k \in DOMAIN entries |-> [entries[k] EXCEPT !.id = k]]
    /\ UNCHANGED <<conf, isSubmitting, call, budget, calcVars, view, csvVars, sessions, estVars, dbVars>>

\* catch and finally
Failed ==
    /\ sub' = Idle
    /\ alerts' = Append(alerts, "Failed to submit entries. Please try again.")
    /\ isSubmitting' = FALSE
    /\ batch' = <<>>
    /\ entries' = [k \in DOMAIN entries |-> [entries[k] EXCEPT !.id = k]]
    /\ UNCHANGED <<conf, call, budget, calcVars, view, csvVars, sessions, estVars, dbVars>>

\* A variant of reachesWriteLoop that goes on whatever the answer is.
reachesWriteLoopAlways(asked, confirmed) == TRUE

\* if (entriesOver8Hours.length > 0) { ... if (!window.confirm(...)) return; }
reachesWriteLoop(asked, confirmed) == ~asked \/ confirmed

\* handleSubmit up to its first await; confirmed is the user's answer to
\* window.confirm
handleSubmit(confirmed) ==
    /\ ~isSubmitting
    /\ sub.pc = "idle"
    /\ budget.submits < MaxSubmits
    /\ FormValid
    /\ LET asked == Len(entriesOver8Hours(entries)) > 0
       IN  /\ asked \/ confirmed
           /\ call' = [made |-> TRUE, entries |-> entries, prompted |-> asked,
                       list |-> entryList(entries), answer |-> confirmed,
                       proceeded |-> reachesWriteLoop(asked, confirmed)]
           /\ IF ~reachesWriteLoop(asked, confirmed)
              THEN UNCHANGED <<isSubmitting, sub, batch, alerts, budget>>
              ELSE /\ isSubmitting' = TRUE
                   /\ batch' = entries
                   /\ alerts' = <<>>
                   /\ budget' = [budget EXCEPT !.submits = @ + 1]
                   /\ sub' = entryStep(entries, 1)
    /\ UNCHANGED <<conf, entries, calcVars, view, csvVars, sessions, estVars, dbVars>>

\* await supabase.from('time_entries').insert({...}).select().single()
InsertTimeEntry(ok) ==
    /\ sub.pc = "insert_entry"
    /\ IF ok
       THEN LET id == Len(time_entries) + 1
            IN  /\ time_entries' = Append(time_entries, [id |-> id] @@ sub.req)
                /\ Proceed(afterExpense(batch, sub.idx, 0, id))
                /\ UNCHANGED <<expenses, retailers, uploads>>
       ELSE Failed

\* await supabase.from('retailers').select('id').eq('name', ...).limit(1);
\* an error of the select is not looked at and leaves existingRetailers null
LookupRetailer(ok) ==
    /\ sub.pc = "lookup_retailer"
    /\ LET found == {r \in DOMAIN retailers : retailers[r] = sub.req.name}
       IN  sub' = IF ok /\ found # {}
                  THEN LET r == CHOOSE x \in found : TRUE
                       IN  [sub EXCEPT !.pc = "insert_expense", !.retailerId = r,
                              !.req = expenseRow(batch[sub.idx], sub.expense,
                                                 sub.timeEntryId, r)]
                  ELSE [sub EXCEPT !.pc = "insert_retailer",
                                   !.req = [name |-> sub.expense.retailer_name]]
    /\ UNCHANGED <<conf, entries, isSubmitting, batch, call, alerts, budget,
                   calcVars, view, csvVars, sessions, estVars, dbVars>>

\* await supabase.from('retailers').insert({ name }).select().single();
\* retailers.name is UNIQUE
InsertRetailer(ok) ==
    /\ sub.pc = "insert_retailer"
    /\ IF ok /\ \A r \in DOMAIN retailers : retailers[r] # sub.req.name
       THEN LET r == Len(retailers) + 1
            IN  /\ retailers' = Append(retailers, sub.req.name)
                /\ sub' = [sub EXCEPT !.pc = "insert_expense", !.retailerId = r,
                              !.req = expenseRow(batch[sub.idx], sub.expense,
                                                 sub.timeEntryId, r)]
                /\ UNCHANGED <<conf, entries, isSubmitting, batch, call, alerts,
                               budget, calcVars, view, csvVars, sessions, estVars, time_entries, expenses,
                               uploads>>
       ELSE Failed

\* await supabase.from('expenses').insert({...})
InsertExpense(ok) ==
    /\ sub.pc = "insert_expense"
    /\ IF ok
       THEN /\ expenses' = Append(expenses, sub.req @@ nullExpenseColumns)
            /\ Proceed(afterExpense(batch, sub.idx, sub.exp, sub.timeEntryId))
            /\ UNCHANGED <<time_entries, retailers, uploads>>
       ELSE Failed

-----------------------------------------------------------------------------
(* The entry form and its submissions *)

Locations == {"", "Elm St"}
RetailerNames == {"", "Acme"}

\* the session of an employee: the time inputs are sampled at two start and
\* two end times, expenses can be added
EmployeeConf ==
    [isAdmin |-> FALSE, userId |-> "u1", full_name |-> "Ann",
     startTimes |-> {<<8, 0>>, <<9, 0>>}, endTimes |-> {<<16, 30>>, <<17, 30>>},
     dates |-> {Today}, maxExpenses |-> MaxExpenses, amounts |-> {0},
     flightEdits |-> 0, retailers |-> <<>>]

\* the session of an admin: the employee and the date of an entry vary
AdminConf ==
    [isAdmin |-> TRUE, userId |-> "u1", full_name |-> "Ann",
     startTimes |-> {<<8, 0>>}, endTimes |-> {<<16, 30>>, <<17, 30>>},
     dates |-> {Today, Today + 1}, maxExpenses |-> 0, amounts |-> {0},
     flightEdits |-> 0, retailers |-> <<>>]

\* the session of an employee who types a start time after the end time
LateConf ==
    [isAdmin |-> FALSE, userId |-> "u1", full_name |-> "Ann",
     startTimes |-> {<<17, 0>>}, endTimes |-> {<<9, 0>>},
     dates |-> {Today}, maxExpenses |-> 0, amounts |-> {0},
     flightEdits |-> 0, retailers |-> <<>>]

\* the session of an employee who buys at a retailer the table holds
ShopperConf ==
    [isAdmin |-> FALSE, userId |-> "u1", full_name |-> "Ann",
     startTimes |-> {<<8, 0>>}, endTimes |-> {<<16, 30>>},
     dates |-> {Today}, maxExpenses |-> MaxExpenses, amounts |-> {0},
     flightEdits |-> 0, retailers |-> <<"Zed">>]

FormConfs == {EmployeeConf, AdminConf, LateConf, ShopperConf}

DbEmpty ==
    /\ time_entries = <<>>
    /\ expenses = <<>>
    /\ retailers = <<>>
    /\ uploads = 0

FormInit ==
    /\ conf \in FormConfs
    /\ entries = <<createDefaultEntry(1)>>
    /\ isSubmitting = FALSE
    /\ sub = Idle
    /\ batch = <<>>
    /\ call = NoCall
    /\ alerts = <<>>
    /\ budget = [submits |-> 0, flightEdits |-> 0]
    /\ time_entries = <<>>
    /\ expenses = <<>>
    /\ retailers = conf.retailers
    /\ uploads = 0
    /\ view = EntryFormMounted
    /\ csvRow = NoCsvRow
    /\ csvFile = NotExported
    /\ EstimateIdle
    /\ sessions = NoSessions
    /\ calcIn = CHOOSE x \in CalcInputs : TRUE
    /\ calcOut = NotComputed

FormNext ==
    \/ \E i \in DOMAIN entries, full \in BOOLEAN : SetType(i, full)
    \/ \E i \in DOMAIN entries, t \in conf.startTimes : SetStartTime(i, t)
    \/ \E i \in DOMAIN entries, t \in conf.endTimes : SetEndTime(i, t)
    \/ \E i \in DOMAIN entries : ToggleLunchBreak(i)
    \/ \E i \in DOMAIN entries, l \in LUNCH_BREAK_OPTIONS : SelectLunchBreak(i, l)
    \/ \E i \in DOMAIN entries, d \in conf.dates : SetDate(i, d)
    \/ \E i \in DOMAIN entries, loc \in Locations : SetLocation(i, loc)
    \/ \E i \in DOMAIN entries, p \in Employees : handleEmployeeSelect(i, p)
    \/ \E i \in DOMAIN entries : addExpense(i)
    \/ \E i \in DOMAIN entries, k \in 1..MaxExpenses : removeExpense(i, k)
    \/ \E i \in DOMAIN entries, k \in 1..MaxExpenses,
          a \in conf.amounts, n \in RetailerNames : updateExpense(i, k, a, n)
    \/ \E i \in DOMAIN entries, k \in 1..MaxExpenses,
          r \in DOMAIN fetchRetailers : selectRetailer(i, k, r)
    \/ \E i \in DOMAIN entries : removeEntry(i)
    \/ addSameDayEntry
    \/ clearForm
    \/ \E confirmed \in BOOLEAN : handleSubmit(confirmed)
    \/ \E ok \in BOOLEAN : InsertTimeEntry(ok)
    \/ \E ok \in BOOLEAN : LookupRetailer(ok)
    \/ \E ok \in BOOLEAN : InsertRetailer(ok)
    \/ \E ok \in BOOLEAN : InsertExpense(ok)

SpecForm == FormInit /\ [][FormNext]_vars

\* the awaited request of a running handleSubmit is answered
RequestAnswered ==
    \E ok \in BOOLEAN :
        \/ InsertTimeEntry(ok)
        \/ LookupRetailer(ok)
        \/ InsertRetailer(ok)
        \/ InsertExpense(ok)

\* Every request to the store is answered, with data or with an error, and
\* the handler then runs on to its next await.
SpecFormFair == SpecForm /\ WF_vars(RequestAnswered)

-----------------------------------------------------------------------------
(* The calculators applied to one entry *)

CalcInit ==
    /\ calcIn \in CalcInputs
    /\ calcOut = NotComputed
    /\ conf = EmployeeConf
    /\ entries = <<>>
    /\ isSubmitting = FALSE
    /\ sub = Idle
    /\ batch = <<>>
    /\ call = NoCall
    /\ alerts = <<>>
    /\ budget = [submits |-> 0, flightEdits |-> 0]
    /\ DbEmpty
    /\ view = EntryFormMounted
    /\ csvRow = NoCsvRow
    /\ csvFile = NotExported
    /\ EstimateIdle
    /\ sessions = NoSessions

Calculate ==
    /\ ~calcOut.done
    /\ calcOut' = [done |-> TRUE,
                   entryHours |-> calculateEntryHours(calcIn),
                   totalHours |-> calculateTotalHours(asRow(calcIn))]
    /\ UNCHANGED <<calcIn, formVars, dbVars, view, csvVars, sessions, estVars>>

CalcNext == Calculate

SpecCalc == CalcInit /\ [][CalcNext]_vars

-----------------------------------------------------------------------------
(* The stored rows the reports read *)

MaxDate == 3          \* the calendar days are 1..MaxDate
MaxStored == 2        \* rows of time_entries
MaxStandalone == 2    \* rows of expenses

Dates == 1..MaxDate

\* the profiles; full_name is not unique
Profiles == Employees \cup {[id |-> "u3", full_name |-> "Ann"]}

\* names in localeCompare order
SortedNames == <<"Ann", "Bob">>

\* a string outside the sample sorts last
nameRank(name) ==
    IF \E i \in DOMAIN SortedNames : SortedNames[i] = name
    THEN CHOOSE i \in DOMAIN SortedNames : SortedNames[i] = name
    ELSE Len(SortedNames) + 1

\* a form entry as the entry form holds it when it is submitted
formEntry(p, date, full, end, lunch, loc) ==
    [createDefaultEntry(0) EXCEPT !.user_id = p.id, !.full_name = p.full_name,
        !.date = date, !.is_full_day = full, !.end_time = end,
        !.has_lunch_break = (lunch # Null), !.lunch_break = lunch,
        !.location = loc]

\* the expense worksheet's insert: date, amount and location, no time entry
standaloneRow(date, amount, loc) ==
    [date |-> date, amount |-> amount, location |-> loc, retailer_id |-> NoId]
        @@ nullExpenseColumns

\* a table holding the given rows, a row's id being its position
Stored(rows) == [k \in DOMAIN rows |-> [id |-> k] @@ rows[k]]

\* the sequences of length 1..n over a set
RECURSIVE SeqsUpTo(_, _)
SeqsUpTo(S, n) ==
    IF n = 0 THEN {<<>>}
    ELSE LET shorter == SeqsUpTo(S, n - 1)
         IN  shorter \cup {Append(s, x) : s \in shorter, x \in S}

\* rows of one employee on one day at one location: full or partial day,
\* every lunch break
HoursRows ==
    {timeEntryRow(formEntry([id |-> "u1", full_name |-> "Ann"], 2, full, end,
                            lunch, "Elm St")) :
        full \in BOOLEAN, end \in {<<16, 30>>, <<17, 30>>},
        lunch \in {Null} \cup LUNCH_BREAK_OPTIONS}

\* full days without lunch of every profile on the first and the third day
PeopleRows ==
    {timeEntryRow(formEntry(p, d, TRUE, <<16, 30>>, Null, "Elm St")) :
        p \in Profiles, d \in {1, 3}}

\* full days of one employee at two locations
SiteRows ==
    {timeEntryRow(formEntry([id |-> "u1", full_name |-> "Ann"], 2, TRUE,
                            <<16, 30>>, <<0, 30>>, loc)) :
        loc \in {"Elm St", "Oak Ave"}}

\* full days of two employees at two locations
MaxGrouped == 3
GroupRows ==
    {timeEntryRow(formEntry([id |-> "u2", full_name |-> "Bob"], 1, TRUE,
                            <<16, 30>>, Null, "Elm St"))}
    \cup {timeEntryRow(formEntry([id |-> "u1", full_name |-> "Ann"], 1, TRUE,
                                 <<16, 30>>, Null, loc)) :
             loc \in {"Elm St", "Oak Ave"}}

\* expenses of the first stored entry and of the expense worksheet
ExpenseRows ==
    {expenseRow(formEntry([id |-> "u1", full_name |-> "Ann"], 2, TRUE,
                          <<16, 30>>, <<0, 30>>, "Elm St"),
                [createDefaultExpense EXCEPT !.amount = 25], tid, NoId)
        @@ nullExpenseColumns : tid \in {1}}
    \cup {standaloneRow(2, 40, loc) : loc \in {"Elm St", "Oak Ave"}}

\* the database holds a few rows written by the forms
StoredInit ==
    /\ retailers = <<>>
    /\ uploads = 0
    /\ \/ /\ time_entries \in {Stored(<<row>>) : row \in HoursRows}
          /\ expenses = <<>>
       \/ /\ time_entries \in {Stored(s) : s \in SeqsUpTo(PeopleRows, MaxStored) \ {<<>>}}
          /\ expenses = <<>>
       \/ /\ time_entries \in {Stored(s) : s \in SeqsUpTo(SiteRows, MaxStored) \ {<<>>}}
          /\ expenses \in SeqsUpTo(ExpenseRows, MaxStandalone)
       \/ /\ time_entries \in {Stored(s) : s \in {x \in SeqsUpTo(GroupRows, MaxGrouped) :
                                                    Len(x) = MaxGrouped}}
          /\ expenses = <<>>

-----------------------------------------------------------------------------
(* Queries *)

\* insertion of a row into a sequence ordered by date; rows of one date
\* stay in table order
RECURSIVE insertByDate(_, _, _)
insertByDate(row, rows, ascending) ==
    IF rows = <<>> THEN <<row>>
    ELSE IF (IF ascending THEN row.date < Head(rows).date
                          ELSE row.date > Head(rows).date)
         THEN <<row>> \o rows
         ELSE <<Head(rows)>> \o insertByDate(row, Tail(rows), ascending)

\* .order('date', { ascending })
RECURSIVE orderByDate(_, _)
orderByDate(rows, ascending) ==
    IF rows = <<>> THEN <<>>
    ELSE insertByDate(rows[Len(rows)],
                      orderByDate(SubSeq(rows, 1, Len(rows) - 1), ascending),
                      ascending)

\* the nested select expenses (amount, ...) of a time entry
nestedExpenses(row) ==
    LET child(e) == e.time_entry_id = row.id
        rows == SelectSeq(expenses, child)
    IN  [k \in DOMAIN rows |-> [amount |-> rows[k].amount]]

\* from('time_entries').select(..., expenses (...)).gte('date', startDate)
\* .lte('date', endDate), with .eq('location', ...) and .eq('full_name', ...)
\* when the filter is not empty
selectTimeEntries(startDate, endDate, location, personName) ==
    LET hit(r) == /\ r.date >= startDate
                  /\ r.date <= endDate
                  /\ location # "" => r.location = location
                  /\ personName # "" => r.full_name = personName
        rows == SelectSeq(time_entries, hit)
    IN  [k \in DOMAIN rows |-> [expenses |-> nestedExpenses(rows[k])] @@ rows[k]]

\* from('expenses').select(...).eq('location', selectedLocation)
\* .gte('date', startDate).lte('date', endDate); a null column matches nothing
selectExpenses(selectedLocation, startDate, endDate) ==
    LET hit(e) == /\ e.location = selectedLocation
                  /\ e.date # NoDate
                  /\ e.date >= startDate
                  /\ e.date <= endDate
    IN  SelectSeq(expenses, hit)

-----------------------------------------------------------------------------
(* ViewActivityPage *)

\* calculateDuration: the minutes whose sixtieth the function returns
calculateDuration(start, end, lunchBreak) ==
    differenceInMinutes(end, start)
        - (IF lunchBreak # Null THEN lunchMinutes(lunchBreak) ELSE 0)

entryDuration(entry) ==
    calculateDuration(entry.start_time, entry.end_time, entry.lunch_break)

\* entry.expenses?.reduce((sum, exp) => sum + exp.amount, 0) || 0
RECURSIVE sumAmounts(_)
sumAmounts(exps) ==
    IF exps = <<>> THEN 0 ELSE Head(exps).amount + sumAmounts(Tail(exps))

\* the page after mounting: the default range holds every sampled day
ActivityMounted ==
    [activeTab |-> "view-activity", startDate |-> 1, endDate |-> MaxDate,
     entries |-> <<>>, personName |-> "", location |-> ""]

\* summary: totalHours (in minutes), totalExpenses, uniqueLocations
RECURSIVE summaryOf(_)
summaryOf(es) ==
    IF es = <<>>
    THEN [totalMinutes |-> 0, totalExpenses |-> 0, uniqueLocations |-> {}]
    ELSE LET acc == summaryOf(SubSeq(es, 1, Len(es) - 1))
             entry == es[Len(es)]
         IN  [totalMinutes |-> acc.totalMinutes + entryDuration(entry),
              totalExpenses |-> acc.totalExpenses + sumAmounts(entry.expenses),
              uniqueLocations |-> acc.uniqueLocations \cup {entry.location}]

summary == summaryOf(view.entries)

\* A variant of personKey that groups by the employee id.
personKeyById(entry) == entry.user_id

\* groups.has(entry.full_name) / groups.get(entry.full_name)
personKey(entry) == entry.full_name

\* the group of a key in a list of groups, appended when there is none
withGroup(groups, key) ==
    IF \E i \in DOMAIN groups : groups[i].key = key THEN groups
    ELSE Append(groups, [key |-> key, totalMinutes |-> 0, totalExpenses |-> 0,
                         locations |-> <<>>, entries |-> <<>>])

groupIndex(groups, key) == CHOOSE i \in DOMAIN groups : groups[i].key = key

\* entries.forEach of groupedEntries: the person group and its location
\* group take the entry, its hours and its expenses
RECURSIVE groupFold(_, _)
groupFold(es, groups) ==
    IF es = <<>> THEN groups
    ELSE LET entry == Head(es)
             persons == withGroup(groups, personKey(entry))
             p == groupIndex(persons, personKey(entry))
             locs == withGroup(persons[p].locations, entry.location)
             l == groupIndex(locs, entry.location)
             minutes == entryDuration(entry)
             spent == sumAmounts(entry.expenses)
             locs1 == [locs EXCEPT ![l].entries = Append(@, entry),
                                   ![l].totalMinutes = @ + minutes,
                                   ![l].totalExpenses = @ + spent]
         IN  groupFold(Tail(es),
                 [persons EXCEPT ![p].locations = locs1,
                                 ![p].totalMinutes = @ + minutes,
                                 ![p].totalExpenses = @ + spent])

\* Array.from(groups.entries()).sort((a, b) => a[0].localeCompare(b[0])),
\* for keys that are names
RECURSIVE sortGroups(_)
sortGroups(groups) ==
    IF groups = <<>> THEN <<>>
    ELSE LET first == CHOOSE i \in DOMAIN groups :
                        \A j \in DOMAIN groups :
                            nameRank(groups[i].key) < nameRank(groups[j].key)
                              \/ (nameRank(groups[i].key) = nameRank(groups[j].key)
                                    /\ i <= j)
         IN  <<groups[first]>>
               \o sortGroups(SubSeq(groups, 1, first - 1)
                               \o SubSeq(groups, first + 1, Len(groups)))

\* locationGroup.entries.sort((a, b) => b.date.localeCompare(a.date)), for
\* every location group of every person group
sortedEntries(groups) ==
    [g \in DOMAIN groups |->
       [groups[g] EXCEPT
          !.locations = [l \in DOMAIN @ |->
                           [@[l] EXCEPT !.entries = orderByDate(@, FALSE)]]]]

groupedEntriesOf(es) == sortGroups(sortedEntries(groupFold(es, <<>>)))

SortedLocations == <<"Elm St", "Oak Ave">>

\* a string outside the sample sorts last
locationRank(loc) ==
    IF \E i \in DOMAIN SortedLocations : SortedLocations[i] = loc
    THEN CHOOSE i \in DOMAIN SortedLocations : SortedLocations[i] = loc
    ELSE Len(SortedLocations) + 1

\* Array.from(personGroup.locations.entries())
\*   .sort((a, b) => a[0].localeCompare(b[0]))
RECURSIVE sortLocations(_)
sortLocations(groups) ==
    IF groups = <<>> THEN <<>>
    ELSE LET first == CHOOSE i \in DOMAIN groups :
                        \A j \in DOMAIN groups :
                            locationRank(groups[i].key) < locationRank(groups[j].key)
                              \/ (locationRank(groups[i].key)
                                     = locationRank(groups[j].key) /\ i <= j)
         IN  <<groups[first]>>
               \o sortLocations(SubSeq(groups, 1, first - 1)
                                  \o SubSeq(groups, first + 1, Len(groups)))

\* A variant of locationEntries that keeps the order of insertion.
locationEntriesUnsorted(personGroup) == personGroup.locations

\* the location groups of a person group as the page lists them
locationEntries(personGroup) == sortLocations(personGroup.locations)

groupedEntries == groupedEntriesOf(view.entries)

\* A variant of eachDayOfInterval that leaves out the end day.
eachDayBeforeEnd(start, end) == start..(end - 1)

\* eachDayOfInterval({ start, end }) for start <= end
eachDayOfInterval(start, end) == start..end

\* Object.keys(data).sort() for 'yyyy-MM-dd' keys
RECURSIVE sortedKeys(_)
sortedKeys(S) ==
    IF S = {} THEN <<>>
    ELSE LET first == CHOOSE d \in S : \A e \in S : d <= e
         IN  <<first>> \o sortedKeys(S \ {first})

noUsers == [user \in {} |-> 0]

\* entries.forEach of chartData: data[entry.date][entry.full_name] += hours,
\* the date and the user being added to data when they are missing
RECURSIVE chartFold(_, _)
chartFold(es, data) ==
    IF es = <<>> THEN data
    ELSE LET entry == Head(es)
             d1 == IF entry.date \in DOMAIN data THEN data
                   ELSE (entry.date :> noUsers) @@ data
             day == d1[entry.date]
             day1 == IF entry.full_name \in DOMAIN day THEN day
                     ELSE (entry.full_name :> 0) @@ day
             day2 == [day1 EXCEPT ![entry.full_name] = @ + entryDuration(entry)]
         IN  chartFold(Tail(es), [d1 EXCEPT ![entry.date] = day2])

\* Array.from(new Set(entries.map(entry => entry.full_name))): the names in
\* the order of their first entry
RECURSIVE uniqueUsers(_)
uniqueUsers(es) ==
    IF es = <<>> THEN <<>>
    ELSE LET before == uniqueUsers(SubSeq(es, 1, Len(es) - 1))
             name == es[Len(es)].full_name
         IN  IF \E i \in DOMAIN before : before[i] = name THEN before
             ELSE Append(before, name)

\* .sort() of the names
RECURSIVE sortNames(_)
sortNames(names) ==
    IF names = <<>> THEN <<>>
    ELSE LET first == CHOOSE i \in DOMAIN names :
                        \A j \in DOMAIN names : nameRank(names[i]) <= nameRank(names[j])
         IN  <<names[first]>>
               \o sortNames(SubSeq(names, 1, first - 1)
                              \o SubSeq(names, first + 1, Len(names)))

\* labels and datasets of a chart over the users
chartOver(data, users) ==
    LET labels == sortedKeys(DOMAIN data)
    IN  [labels |-> labels,
         datasets |->
            [u \in DOMAIN users |->
                [label |-> users[u],
                 data |-> [k \in DOMAIN labels |->
                             IF users[u] \in DOMAIN data[labels[k]]
                             THEN data[labels[k]][users[u]] ELSE 0]]]]

\* chartData of the first ViewActivityPage: null without entries and for a
\* start date after the end date
chartDataOf(es, startDate, endDate) ==
    IF es = <<>> \/ startDate > endDate THEN Null
    ELSE chartOver(chartFold(es, [d \in eachDayOfInterval(startDate, endDate)
                                    |-> noUsers]),
                   sortNames(uniqueUsers(es)))

\* chartData of the second ViewActivityPage, for startDate <= endDate
chartDataOf2(es, startDate, endDate) ==
    IF es = <<>> THEN Null
    ELSE chartOver(chartFold(es, [d \in eachDayOfInterval(startDate, endDate)
                                    |-> noUsers]),
                   uniqueUsers(es))

chartData == chartDataOf(view.entries, view.startDate, view.endDate)

chartData2 == chartDataOf2(view.entries, view.startDate, view.endDate)

OnActivity == view.activeTab = "view-activity"

\* the Start Date input
setStartDate(d) ==
    /\ OnActivity
    /\ view.startDate # d
    /\ view' = [view EXCEPT !.startDate = d]
    /\ UNCHANGED <<calcVars, formVars, dbVars, csvVars, sessions, estVars>>

\* the End Date input
setEndDate(d) ==
    /\ OnActivity
    /\ view.endDate # d
    /\ view' = [view EXCEPT !.endDate = d]
    /\ UNCHANGED <<calcVars, formVars, dbVars, csvVars, sessions, estVars>>

\* handleDateRangeChange with a preset: the range becomes the default one
handleDateRangeChange ==
    /\ OnActivity
    /\ view' = [view EXCEPT !.startDate = 1, !.endDate = MaxDate]
    /\ UNCHANGED <<calcVars, formVars, dbVars, csvVars, sessions, estVars>>

\* the person filter
setPersonName(name) ==
    /\ OnActivity
    /\ view.personName # name
    /\ view' = [view EXCEPT !.personName = name]
    /\ UNCHANGED <<calcVars, formVars, dbVars, csvVars, sessions, estVars>>

\* the location filter
setLocation(loc) ==
    /\ OnActivity
    /\ view.location # loc
    /\ view' = [view EXCEPT !.location = loc]
    /\ UNCHANGED <<calcVars, formVars, dbVars, csvVars, sessions, estVars>>

\* the rows fetchEntries asks for with the state of the current render
fetchedEntries ==
    orderByDate(selectTimeEntries(view.startDate, view.endDate, view.location,
                                  view.personName), FALSE)

\* fetchEntries (the mount effect and the Search button): nothing is fetched
\* for a start date after the end date; a failed query leaves the entries
fetchEntries(ok) ==
    /\ OnActivity
    /\ view.startDate <= view.endDate
    /\ view' = IF ok THEN [view EXCEPT !.entries = fetchedEntries] ELSE view
    /\ UNCHANGED <<calcVars, formVars, dbVars, csvVars, sessions, estVars>>

\* Clear Filters: setLocation(''); setPersonName(''); fetchEntries(), which
\* still reads the filters of the current render
clearFilters(ok) ==
    /\ OnActivity
    /\ view' = [view EXCEPT !.location = "", !.personName = "",
                  !.entries = IF ok /\ view.startDate <= view.endDate
                              THEN fetchedEntries ELSE @]
    /\ UNCHANGED <<calcVars, formVars, dbVars, csvVars, sessions, estVars>>

\* deleteEntry, confirmed: the row is deleted unless an expense refers to it
deleteEntry(entryId) ==
    /\ OnActivity
    /\ \E i \in DOMAIN view.entries : view.entries[i].id = entryId
    /\ \A k \in DOMAIN expenses : expenses[k].time_entry_id # entryId
    /\ LET other(r) == r.id # entryId
       IN  /\ time_entries' = SelectSeq(time_entries, other)
           /\ view' = [view EXCEPT !.entries = SelectSeq(@, other)]
    /\ UNCHANGED <<calcVars, formVars, expenses, retailers, uploads, csvVars, sessions, estVars>>

-----------------------------------------------------------------------------
(* CreateInvoicePage *)

\* the page after mounting: both dates are today, the last sampled day
InvoiceMounted ==
    [activeTab |-> "create-invoice", selectedLocation |-> "",
     startDate |-> MaxDate, endDate |-> MaxDate,
     timeEntries |-> <<>>, standaloneExpenses |-> <<>>]

\* the minutes whose sixtieth locationSummary adds for an entry: a full day
\* counts from 09:00 to 17:00
invoiceMinutes(entry) ==
    differenceInMinutes(IF entry.is_full_day THEN <<17, 0>> ELSE entry.end_time,
                        IF entry.is_full_day THEN <<9, 0>> ELSE entry.start_time)
        - (IF entry.lunch_break # Null THEN lunchMinutes(entry.lunch_break) ELSE 0)

\* acc.employeeHours[entry.full_name]
employeeKey(entry) == entry.full_name

\* the reduce of locationSummary; employeeHours lists its keys in the order
\* they were added
RECURSIVE invoiceFold(_)
invoiceFold(es) ==
    IF es = <<>>
    THEN [totalMinutes |-> 0, totalExpenses |-> 0, employeeHours |-> <<>>,
          entries |-> <<>>]
    ELSE LET acc == invoiceFold(SubSeq(es, 1, Len(es) - 1))
             entry == es[Len(es)]
             key == employeeKey(entry)
             hours == IF \E i \in DOMAIN acc.employeeHours :
                            acc.employeeHours[i].key = key
                      THEN acc.employeeHours
                      ELSE Append(acc.employeeHours, [key |-> key, minutes |-> 0])
             i == CHOOSE i \in DOMAIN hours : hours[i].key = key
         IN  [totalMinutes |-> acc.totalMinutes + invoiceMinutes(entry),
              totalExpenses |-> acc.totalExpenses + sumAmounts(entry.expenses),
              employeeHours |-> [hours EXCEPT ![i].minutes = @ + invoiceMinutes(entry)],
              entries |-> Append(acc.entries, entry)]

\* locationSummary: the reduce, then the standalone expenses
locationSummaryOf(timeEntries, standaloneExpenses) ==
    LET acc == invoiceFold(timeEntries)
    IN  [acc EXCEPT !.totalExpenses = @ + sumAmounts(standaloneExpenses)]
            @@ [standaloneExpenses |-> standaloneExpenses]

locationSummary == locationSummaryOf(view.timeEntries, view.standaloneExpenses)

OnInvoice == view.activeTab = "create-invoice"

\* the location input and its dropdown
setSelectedLocation(loc) ==
    /\ OnInvoice
    /\ view.selectedLocation # loc
    /\ view' = [view EXCEPT !.selectedLocation = loc]
    /\ UNCHANGED <<calcVars, formVars, dbVars, csvVars, sessions, estVars>>

\* the Start Date input of the invoice page
setInvoiceStartDate(d) ==
    /\ OnInvoice
    /\ view.startDate # d
    /\ view' = [view EXCEPT !.startDate = d]
    /\ UNCHANGED <<calcVars, formVars, dbVars, csvVars, sessions, estVars>>

\* the End Date input of the invoice page
setInvoiceEndDate(d) ==
    /\ OnInvoice
    /\ view.endDate # d
    /\ view' = [view EXCEPT !.endDate = d]
    /\ UNCHANGED <<calcVars, formVars, dbVars, csvVars, sessions, estVars>>

\* fetchTimeEntries: the time entries are set before the expenses are
\* asked for; a failed query ends the call
fetchTimeEntries(entriesOk, expensesOk) ==
    /\ OnInvoice
    /\ view.selectedLocation # ""
    /\ view' =
         IF ~entriesOk THEN view
         ELSE [view EXCEPT
                 !.timeEntries =
                     orderByDate(selectTimeEntries(view.startDate, view.endDate,
                                                   view.selectedLocation, ""), TRUE),
                 !.standaloneExpenses =
                     IF expensesOk
                     THEN orderByDate(selectExpenses(view.selectedLocation,
                                                     view.startDate, view.endDate), TRUE)
                     ELSE @]
    /\ UNCHANGED <<calcVars, formVars, dbVars, csvVars, sessions, estVars>>

-----------------------------------------------------------------------------
(* The report pages over stored rows *)

\* Dashboard: setActiveTab mounts the page of the tab
setActiveTab(tab) ==
    /\ view.activeTab # tab
    /\ view' = IF tab = "view-activity" THEN ActivityMounted ELSE InvoiceMounted
    /\ UNCHANGED <<calcVars, formVars, dbVars, csvVars, sessions, estVars>>

ReportInit ==
    /\ conf = AdminConf
    /\ entries = <<createDefaultEntry(1)>>
    /\ isSubmitting = FALSE
    /\ sub = Idle
    /\ batch = <<>>
    /\ call = NoCall
    /\ alerts = <<>>
    /\ budget = [submits |-> 0, flightEdits |-> 0]
    /\ calcIn = CHOOSE x \in CalcInputs : TRUE
    /\ calcOut = NotComputed
    /\ StoredInit
    /\ view = ActivityMounted
    /\ csvRow = NoCsvRow
    /\ csvFile = NotExported
    /\ EstimateIdle
    /\ sessions = NoSessions

ReportNext ==
    \/ \E tab \in {"view-activity", "create-invoice"} : setActiveTab(tab)
    \/ \E d \in Dates : setStartDate(d)
    \/ \E d \in Dates : setEndDate(d)
    \/ handleDateRangeChange
    \/ \E name \in {"", "Ann"} : setPersonName(name)
    \/ \E loc \in {"", "Elm St"} : setLocation(loc)
    \/ \E ok \in BOOLEAN : fetchEntries(ok)
    \/ \E ok \in BOOLEAN : clearFilters(ok)
    \/ \E id \in 1..MaxStored : deleteEntry(id)
    \/ \E loc \in {"", "Elm St", "Oak Ave"} : setSelectedLocation(loc)
    \/ \E d \in Dates : setInvoiceStartDate(d)
    \/ \E d \in Dates : setInvoiceEndDate(d)
    \/ \E entriesOk, expensesOk \in BOOLEAN : fetchTimeEntries(entriesOk, expensesOk)

SpecReport == ReportInit /\ [][ReportNext]_vars

-----------------------------------------------------------------------------
(* The CSV exports *)

MaxCellLen == 2    \* characters of a free-text field

\* A text is a sequence of characters; the characters sampled are a letter,
\* the comma and the double quote.  A word without comma and quote (a header,
\* a rendered digit) counts as one character.
Chars == {"a", ",", "\""}

RECURSIVE TextsUpTo(_)
TextsUpTo(n) ==
    IF n = 0 THEN {<<>>}
    ELSE TextsUpTo(n - 1)
           \cup {Append(t, c) : t \in {x \in TextsUpTo(n - 1) : Len(x) = n - 1},
                                c \in Chars}

Texts == TextsUpTo(MaxCellLen)

\* the cells of a row by their typeof
stringCell(text) == [typeof |-> "string", text |-> text]
numberCell(n) == [typeof |-> "number", value |-> n]
nullCell == [typeof |-> "object"]

digit(d) == <<"0", "1", "2", "3", "4", "5", "6", "7", "8", "9">>[d + 1]

RECURSIVE natText(_)
natText(n) ==
    IF n < 10 THEN <<digit(n)>> ELSE Append(natText(n \div 10), digit(n % 10))

\* (h / 100).toFixed(2) for hundredths h >= 0
toFixedText(h) ==
    natText(h \div 100) \o <<".", digit((h % 100) \div 10), digit(h % 10)>>

\* (h / 100).toString() for hundredths h >= 0, and the text join() writes for
\* a number cell
toStringText(h) ==
    IF h % 100 = 0 THEN natText(h \div 100)
    ELSE IF h % 10 = 0 THEN natText(h \div 100) \o <<".", digit((h % 100) \div 10)>>
    ELSE toFixedText(h)

\* A variant of escapeQuotes that leaves the quotes as they are.
keepQuotes(text) == text

\* cell.replace(/"/g, '""')
RECURSIVE escapeQuotes(_)
escapeQuotes(text) ==
    IF text = <<>> THEN <<>>
    ELSE (IF Head(text) = "\"" THEN <<"\"", "\"">> ELSE <<Head(text)>>)
           \o escapeQuotes(Tail(text))

\* typeof cell === 'string' ? `"${cell.replace(/"/g, '""')}"` : cell, as
\* join(',') writes it: a number by its toString(), null as nothing
writeCell(cell) ==
    IF cell.typeof = "string" THEN <<"\"">> \o escapeQuotes(cell.text) \o <<"\"">>
    ELSE IF cell.typeof = "number" THEN toStringText(cell.value)
    ELSE <<>>

\* row.map(...).join(',')
RECURSIVE joinCells(_)
joinCells(row) ==
    IF row = <<>> THEN <<>>
    ELSE IF Len(row) = 1 THEN writeCell(row[1])
    ELSE writeCell(row[1]) \o <<",">> \o joinCells(Tail(row))

\* headers.join(',')
RECURSIVE joinHeaders(_)
joinHeaders(headers) ==
    IF headers = <<>> THEN <<>>
    ELSE IF Len(headers) = 1 THEN <<headers[1]>>
    ELSE <<headers[1], ",">> \o joinHeaders(Tail(headers))

\* entry.notes || ''
orEmpty(cell) == IF cell.typeof = "string" THEN cell ELSE stringCell(<<>>)

\* the fields of an exported entry: full_name and hours, notes and the
\* description of its expense, which may be null
CsvInputs ==
    [full_name : {stringCell(t) : t \in Texts},
     notes : {stringCell(t) : t \in Texts} \cup {nullCell},
     description : {stringCell(t) : t \in Texts} \cup {nullCell},
     hours : {750, 800, 825}]

\* ViewActivityPage.exportToCSV: header line, then the row of the entry
exportToCSV ==
    /\ csvFile = NotExported
    /\ EstimateIdle
    /\ sessions = NoSessions
    /\ LET row == <<csvRow.full_name, stringCell(toStringText(csvRow.hours)),
                    orEmpty(csvRow.notes), csvRow.description>>
       IN  csvFile' = [by |-> "activity", row |-> row,
                       lines |-> <<joinHeaders(<<"Employee", "Hours", "Notes",
                                                 "Expense Description">>),
                                   joinCells(row)>>]
    /\ UNCHANGED <<csvRow, calcVars, formVars, dbVars, view, estVars, sessions>>

\* AdminPage.exportToCSV: the hours cell is a number
exportTimeEntries ==
    /\ csvFile = NotExported
    /\ EstimateIdle
    /\ sessions = NoSessions
    /\ LET row == <<csvRow.full_name, numberCell(csvRow.hours),
                    orEmpty(csvRow.notes)>>
       IN  csvFile' = [by |-> "admin", row |-> row,
                       lines |-> <<joinHeaders(<<"Employee", "Hours", "Notes">>),
                                   joinCells(row)>>]
    /\ UNCHANGED <<csvRow, calcVars, formVars, dbVars, view, estVars, sessions>>

\* CreateInvoicePage.generateExcel: the headers are a row like the others
generateExcel ==
    /\ csvFile = NotExported
    /\ EstimateIdle
    /\ sessions = NoSessions
    /\ LET row == <<csvRow.full_name, stringCell(toFixedText(csvRow.hours)),
                    orEmpty(csvRow.notes), csvRow.description>>
       IN  csvFile' = [by |-> "invoice", row |-> row,
                       lines |-> <<joinCells(<<stringCell(<<"Employee">>),
                                               stringCell(<<"Hours">>),
                                               stringCell(<<"Notes">>),
                                               stringCell(<<"Expense Description">>)>>),
                                   joinCells(row)>>]
    /\ UNCHANGED <<csvRow, calcVars, formVars, dbVars, view, estVars, sessions>>

CsvInit ==
    /\ csvRow \in CsvInputs
    /\ csvFile = NotExported
    /\ EstimateIdle
    /\ sessions = NoSessions
    /\ conf = EmployeeConf
    /\ entries = <<>>
    /\ isSubmitting = FALSE
    /\ sub = Idle
    /\ batch = <<>>
    /\ call = NoCall
    /\ alerts = <<>>
    /\ budget = [submits |-> 0, flightEdits |-> 0]
    /\ DbEmpty
    /\ view = EntryFormMounted
    /\ calcIn = CHOOSE x \in CalcInputs : TRUE
    /\ calcOut = NotComputed

CsvNext ==
    \/ exportToCSV
    \/ exportTimeEntries
    \/ generateExcel

SpecCsv == CsvInit /\ [][CsvNext]_vars

-----------------------------------------------------------------------------
(* The estimate worksheet: EstimateWorksheetPage of CreateInvoicePage.tsx   *)
(*                                                                         *)
(* The numbers of the page are decimals.  A cost, a subtotal and an        *)
(* overhead percentage are held in hundredths (20.50 is 2050, 15% is       *)
(* 1500); overheadAmount and total, the product of two such numbers        *)
(* divided by 100, are held in millionths (4.575 is 4575000), so that no   *)
(* digit of them is lost.  The texts typed into the page carry at most two *)
(* decimals.  Row ids, the texts "1", "2", ... in the code, are held as    *)
(* the numbers parseInt reads from them.                                   *)

MaxRows == 6
MaxEdits == 2
MaxDeletes == 1
MaxSaves == 2

inMillionths(hundredths) == hundredths * 10000

isDigit(c) == c \in {"0", "1", "2", "3", "4", "5", "6", "7", "8", "9"}

digitValue(c) == CHOOSE d \in 0..9 : digit(d) = c

RECURSIVE digitsPrefix(_)
digitsPrefix(text) ==
    IF text = <<>> \/ ~isDigit(Head(text)) THEN <<>>
    ELSE <<Head(text)>> \o digitsPrefix(Tail(text))

RECURSIVE natValue(_)
natValue(ds) ==
    IF ds = <<>> THEN 0
    ELSE natValue(SubSeq(ds, 1, Len(ds) - 1)) * 10 + digitValue(ds[Len(ds)])

\* parseFloat: the longest prefix of the text that is a decimal literal, in
\* hundredths, or NaN when there is none
NaN == [isNaN |-> TRUE, value |-> 0]

parseFloat(text) ==
    LET signed == text # <<>> /\ Head(text) \in {"-", "+"}
        body == IF signed THEN Tail(text) ELSE text
        whole == digitsPrefix(body)
        rest == SubSeq(body, Len(whole) + 1, Len(body))
        frac == IF rest # <<>> /\ Head(rest) = "." THEN digitsPrefix(Tail(rest))
                ELSE <<>>
        tenths == IF Len(frac) >= 1 THEN digitValue(frac[1]) ELSE 0
        hundredths == IF Len(frac) >= 2 THEN digitValue(frac[2]) ELSE 0
        magnitude == natValue(whole) * 100 + tenths * 10 + hundredths
    IN  IF whole = <<>> /\ frac = <<>> THEN NaN
        ELSE [isNaN |-> FALSE,
              value |-> IF signed /\ Head(text) = "-" THEN 0 - magnitude
                        ELSE magnitude]

\* value.replace(/[^0-9.]/g, '') and parseFloat, 0 for NaN
parseCurrencyInput(value) ==
    LET cleaned == SelectSeq(value, LAMBDA c : isDigit(c) \/ c = ".")
        parsed == parseFloat(cleaned)
    IN  IF parsed.isNaN THEN 0 ELSE parsed.value

\* A variant of roundToCents that drops the digits after the cents.
truncateToCents(millionths) ==
    IF millionths >= 0 THEN millionths \div 10000
    ELSE 0 - ((0 - millionths) \div 10000)

\* the two fraction digits Intl.NumberFormat keeps for USD, rounded half
\* away from zero; the same rounding a decimal(12,2) column applies
roundToCents(millionths) ==
    IF millionths >= 0 THEN (millionths + 5000) \div 10000
    ELSE 0 - ((5000 - millionths) \div 10000)

RECURSIVE grouped(_)
grouped(n) ==
    IF n < 1000 THEN natText(n)
    ELSE grouped(n \div 1000)
           \o <<",", digit((n % 1000) \div 100), digit((n % 100) \div 10),
                digit(n % 10)>>

\* Intl.NumberFormat('en-US', {style: 'currency', currency: 'USD'}).format
formatCurrency(millionths) ==
    LET cents == roundToCents(millionths)
        magnitude == IF cents < 0 THEN 0 - cents ELSE cents
    IN  (IF cents < 0 THEN <<"-">> ELSE <<>>)
          \o <<"$">> \o grouped(magnitude \div 100)
          \o <<".", digit((magnitude % 100) \div 10), digit(magnitude % 10)>>

\* job names: a base and the number of the " vN" suffix, 0 for no suffix
jobNameOf(base, version) == [base |-> base, version |-> version]
NoJobName == jobNameOf("", 0)
JobNames == {NoJobName, jobNameOf("Deck", 0)}

\* jobName.trim() is empty
blankName(name) == name.base = "" /\ name.version = 0

\* the sampled base names of which the first is the beginning of the second
ProperPrefixes == {<<"Deck", "Deck House">>}

\* e.job_name.startsWith(baseJobName), baseJobName carrying no version: the
\* name begins with it when its own base does
startsWith(name, base) ==
    \/ base = ""
    \/ name.base = base
    \/ <<base, name.base>> \in ProperPrefixes

MaxOf(S) == CHOOSE n \in S : \A m \in S : m <= n

getNextVersionNumber(savedEstimates, baseJobName) ==
    LET versions == {IF savedEstimates[k].job_name.version # 0
                     THEN savedEstimates[k].job_name.version ELSE 1 :
                       k \in {j \in DOMAIN savedEstimates :
                                startsWith(savedEstimates[j].job_name, baseJobName)}}
    IN  IF versions # {} THEN MaxOf(versions) + 1 ELSE 2

newRows == [i \in 1..5 |-> [id |-> i, item |-> "", cost |-> 0]]

NoCostInputs == [id \in {} |-> <<>>]

EstimateMounted ==
    [jobName |-> NoJobName, currentEstimateId |-> NoId, rows |-> newRows,
     overheadPercentage |-> 1500, overheadInput |-> <<"1", "5">>,
     savedEstimates |-> <<>>, showLoadModal |-> FALSE,
     showSaveAsModal |-> FALSE, saveAsName |-> NoJobName, saveMessage |-> "",
     costInputs |-> NoCostInputs, edits |-> 0, deletes |-> 0, saves |-> 0]

\* the texts typed into a cost field and into the overhead field
CostTexts == {<<>>, <<"1", "0">>, <<"2", "0", ".", "5", "0">>, <<"-", "5">>}
OverheadTexts == {<<>>, <<"1", "2", ".", "5">>, <<"-", "5">>}
Items == {"Lumber"}

\* The sessions of the worksheet: one that edits the rows and the overhead,
\* one that saves, loads and starts estimates, and one that saves versions.
EstimateEditing ==
    [costTexts |-> CostTexts, costIds |-> {1, 2},
     overheadTexts |-> OverheadTexts, items |-> Items, jobNames |-> {},
     modals |-> {}, saveAs |-> FALSE, maxEdits |-> MaxEdits,
     maxDeletes |-> MaxDeletes,
     maxRows |-> MaxRows, maxSaves |-> 0]
EstimateSaving ==
    [costTexts |-> {<<"2", "0", ".", "5", "0">>}, costIds |-> {1},
     overheadTexts |-> {<<"1", "2", ".", "5">>, <<"-", "5">>}, items |-> {},
     jobNames |-> JobNames,
     modals |-> BOOLEAN, saveAs |-> FALSE, maxEdits |-> 1, maxDeletes |-> 0,
     maxRows |-> 5, maxSaves |-> MaxSaves]
EstimateVersions ==
    [costTexts |-> {}, costIds |-> {}, overheadTexts |-> {}, items |-> {},
     jobNames |-> JobNames \cup {jobNameOf("Deck House", 0)},
     modals |-> {}, saveAs |-> TRUE, maxEdits |-> 0, maxDeletes |-> 0,
     maxRows |-> 5, maxSaves |-> MaxSaves]
EstimateConfs == {EstimateEditing, EstimateSaving, EstimateVersions}

rowIds(rows) == {rows[k].id : k \in DOMAIN rows}

\* the cost field of the row has the focus, or no cost field has
\* no modal lies over the page
noModal == ~worksheet.showLoadModal /\ ~worksheet.showSaveAsModal
focusOn(id) == noModal /\ DOMAIN worksheet.costInputs \subseteq {id}
noFocus == worksheet.costInputs = NoCostInputs
onPage == noModal /\ noFocus

\* A variant of sumOfCosts that starts at the second row.
sumOfCostsButFirst(rows) ==
    LET RECURSIVE reduce(_, _)
        reduce(sum, k) ==
            IF k > Len(rows) THEN sum ELSE reduce(sum + rows[k].cost, k + 1)
    IN  reduce(0, 2)

\* rows.reduce((sum, row) => sum + row.cost, 0)
sumOfCosts(rows) ==
    LET RECURSIVE reduce(_, _)
        reduce(sum, k) ==
            IF k > Len(rows) THEN sum ELSE reduce(sum + rows[k].cost, k + 1)
    IN  reduce(0, 1)

\* (subtotal * overheadPercentage) / 100, in millionths
overheadOf(amount, percentage) == amount * percentage

totalOf(amount, overhead) == inMillionths(amount) + overhead

subtotal == sumOfCosts(worksheet.rows)
overheadAmount == overheadOf(subtotal, worksheet.overheadPercentage)
total == totalOf(subtotal, overheadAmount)

\* what the page shows below the rows
displayedSubtotal == formatCurrency(inMillionths(subtotal))
displayedOverhead == formatCurrency(overheadAmount)
displayedTotal == formatCurrency(total)

\* the value of the cost field of a row
costFieldValue(row) ==
    IF row.id \in DOMAIN worksheet.costInputs THEN worksheet.costInputs[row.id]
    ELSE IF row.cost = 0 THEN <<>>
    ELSE formatCurrency(inMillionths(row.cost))

estimateData(name) ==
    [job_name |-> name, items |-> worksheet.rows,
     overhead_percentage |-> worksheet.overheadPercentage,
     subtotal |-> subtotal, overhead_amount |-> overheadAmount,
     total |-> total]

\* the row the table keeps of the data of a write: the decimal(12,2) columns
\* keep two decimals
storedEstimate(id, data) ==
    [id |-> id, job_name |-> data.job_name, items |-> data.items,
     overhead_percentage |-> data.overhead_percentage,
     subtotal |-> data.subtotal,
     overhead_amount |-> roundToCents(data.overhead_amount),
     total |-> roundToCents(data.total)]

\* select id, job_name, ..., total from estimate_worksheets
loadSavedEstimates(table) ==
    [k \in DOMAIN table |->
       [id |-> table[k].id, job_name |-> table[k].job_name,
        total |-> table[k].total]]

setJobName(name) ==
    /\ onPage
    /\ worksheet.jobName # name
    /\ worksheet' = [worksheet EXCEPT !.jobName = name]
    /\ UNCHANGED <<estimate_worksheets, estWrite, calcVars, formVars, dbVars, view, csvVars, sessions>>

handleCostInputChange(id, value) ==
    /\ id \in rowIds(worksheet.rows)
    /\ focusOn(id)
    /\ worksheet.edits < conf.maxEdits
    /\ worksheet' = [worksheet EXCEPT !.costInputs = (id :> value),
                                      !.edits = @ + 1]
    /\ UNCHANGED <<estimate_worksheets, estWrite, calcVars, formVars, dbVars, view, csvVars, sessions>>

handleCostBlur(id) ==
    /\ id \in rowIds(worksheet.rows)
    /\ focusOn(id)
    /\ LET typed == IF id \in DOMAIN worksheet.costInputs
                    THEN worksheet.costInputs[id] ELSE <<>>
           value == IF typed = <<>> THEN <<"0">> ELSE typed
           numericValue == parseCurrencyInput(value)
       IN  worksheet' =
             [worksheet EXCEPT
                !.rows = [k \in DOMAIN @ |->
                            IF @[k].id = id THEN [@[k] EXCEPT !.cost = numericValue]
                            ELSE @[k]],
                !.costInputs = NoCostInputs]
    /\ UNCHANGED <<estimate_worksheets, estWrite, calcVars, formVars, dbVars, view, csvVars, sessions>>

handleItemChange(id, value) ==
    /\ id \in rowIds(worksheet.rows)
    /\ onPage
    /\ worksheet.edits < conf.maxEdits
    /\ worksheet' =
         [worksheet EXCEPT
            !.rows = [k \in DOMAIN @ |->
                        IF @[k].id = id THEN [@[k] EXCEPT !.item = value]
                        ELSE @[k]],
            !.edits = @ + 1]
    /\ UNCHANGED <<estimate_worksheets, estWrite, calcVars, formVars, dbVars, view, csvVars, sessions>>

handleOverheadInputChange(value) ==
    /\ onPage
    /\ worksheet.overheadInput # value
    /\ LET parsed == parseFloat(value)
       IN  worksheet' =
             [worksheet EXCEPT
                !.overheadInput = value,
                !.overheadPercentage =
                    IF ~parsed.isNaN /\ parsed.value >= 0 THEN parsed.value ELSE @]
    /\ UNCHANGED <<estimate_worksheets, estWrite, calcVars, formVars, dbVars, view, csvVars, sessions>>

\* A variant of handleOverheadBlur that takes a text that is no percentage
\* for 0.
handleOverheadBlurToZero ==
    /\ onPage
    /\ LET parsed == parseFloat(worksheet.overheadInput)
           value == IF parsed.isNaN \/ parsed.value < 0 THEN 0 ELSE parsed.value
       IN  worksheet' =
             [worksheet EXCEPT
                 !.overheadPercentage = value,
                 !.overheadInput = toStringText(value)]
    /\ UNCHANGED <<estimate_worksheets, estWrite, calcVars, formVars, dbVars, view, csvVars, sessions>>

handleOverheadBlur ==
    /\ onPage
    /\ LET parsed == parseFloat(worksheet.overheadInput)
       IN  worksheet' =
             IF parsed.isNaN \/ parsed.value < 0
             THEN [worksheet EXCEPT
                     !.overheadInput = toStringText(worksheet.overheadPercentage)]
             ELSE [worksheet EXCEPT
                     !.overheadPercentage = parsed.value,
                     !.overheadInput = toStringText(parsed.value)]
    /\ UNCHANGED <<estimate_worksheets, estWrite, calcVars, formVars, dbVars, view, csvVars, sessions>>

addRow ==
    /\ onPage
    /\ Len(worksheet.rows) < conf.maxRows
    /\ LET newId == MaxOf(rowIds(worksheet.rows) \cup {0}) + 1
       IN  worksheet' =
             [worksheet EXCEPT
                !.rows = Append(@, [id |-> newId, item |-> "", cost |-> 0])]
    /\ UNCHANGED <<estimate_worksheets, estWrite, calcVars, formVars, dbVars, view, csvVars, sessions>>

deleteRow(id) ==
    /\ onPage
    /\ id \in rowIds(worksheet.rows)
    /\ worksheet.deletes < conf.maxDeletes
    /\ worksheet' =
         [worksheet EXCEPT
            !.rows = IF Len(@) > 1 THEN SelectSeq(@, LAMBDA row : row.id # id)
                     ELSE @,
            !.deletes = @ + 1]
    /\ UNCHANGED <<estimate_worksheets, estWrite, calcVars, formVars, dbVars, view, csvVars, sessions>>

\* The writes in flight once another worksheet is on screen. The mark is
\* history only: no handler reads it.
leftBehind(writes) ==
    [k \in DOMAIN writes |-> [writes[k] EXCEPT !.current = FALSE]]

startNewEstimate ==
    /\ onPage
    /\ worksheet' =
         [EstimateMounted EXCEPT
            !.savedEstimates = worksheet.savedEstimates,
            !.showLoadModal = worksheet.showLoadModal,
            !.showSaveAsModal = worksheet.showSaveAsModal,
            !.saveAsName = worksheet.saveAsName,
            !.saveMessage = worksheet.saveMessage,
            !.edits = worksheet.edits, !.deletes = worksheet.deletes,
            !.saves = worksheet.saves]
    /\ worksheet' # worksheet
    /\ estWrite' = leftBehind(estWrite)
    /\ UNCHANGED <<estimate_worksheets, calcVars, formVars, dbVars, view, csvVars, sessions>>

setShowLoadModal(shown) ==
    /\ noFocus
    /\ ~worksheet.showSaveAsModal
    /\ worksheet.showLoadModal # shown
    /\ worksheet' = [worksheet EXCEPT !.showLoadModal = shown]
    /\ UNCHANGED <<estimate_worksheets, estWrite, calcVars, formVars, dbVars, view, csvVars, sessions>>

\* setTimeout(() => setSaveMessage(''), 3000)
saveMessageTimeout ==
    /\ worksheet.saveMessage # ""
    /\ worksheet' = [worksheet EXCEPT !.saveMessage = ""]
    /\ UNCHANGED <<estimate_worksheets, estWrite, calcVars, formVars, dbVars, view, csvVars, sessions>>

\* saveEstimate up to its write: the data of the write are the values of the
\* render the handler was created in
saveEstimate ==
    /\ onPage
    /\ worksheet.saves < conf.maxSaves
    /\ IF blankName(worksheet.jobName)
       THEN /\ worksheet' = [worksheet EXCEPT
                               !.saveMessage = "Please enter a job name",
                               !.saves = @ + 1]
            /\ UNCHANGED estWrite
       ELSE /\ worksheet' = [worksheet EXCEPT !.saves = @ + 1]
            /\ estWrite' =
                 Append(estWrite,
                        [by |-> "saveEstimate", n |-> worksheet.saves + 1,
                         current |-> TRUE,
                         id |-> worksheet.currentEstimateId,
                         data |-> estimateData(worksheet.jobName)])
    /\ UNCHANGED <<estimate_worksheets, calcVars, formVars, dbVars, view, csvVars, sessions>>

handleSaveAs ==
    /\ conf.saveAs
    /\ onPage
    /\ ~worksheet.showSaveAsModal
    /\ worksheet.saves < conf.maxSaves
    /\ LET baseJobName == worksheet.jobName.base
           nextVersion == getNextVersionNumber(worksheet.savedEstimates,
                                               baseJobName)
       IN  worksheet' = [worksheet EXCEPT
                           !.saveAsName = jobNameOf(baseJobName, nextVersion),
                           !.showSaveAsModal = TRUE]
    /\ UNCHANGED <<estimate_worksheets, estWrite, calcVars, formVars, dbVars, view, csvVars, sessions>>

setShowSaveAsModal ==
    /\ worksheet.showSaveAsModal
    /\ worksheet' = [worksheet EXCEPT !.showSaveAsModal = FALSE]
    /\ UNCHANGED <<estimate_worksheets, estWrite, calcVars, formVars, dbVars, view, csvVars, sessions>>

\* confirmSaveAs up to its write
confirmSaveAs ==
    /\ noFocus
    /\ worksheet.showSaveAsModal
    /\ worksheet.saves < conf.maxSaves
    /\ ~blankName(worksheet.saveAsName)
    /\ worksheet' = [worksheet EXCEPT !.saves = @ + 1]
    /\ estWrite' =
         Append(estWrite,
                [by |-> "confirmSaveAs", n |-> worksheet.saves + 1, id |-> NoId,
                 current |-> TRUE,
                 data |-> estimateData(worksheet.saveAsName)])
    /\ UNCHANGED <<estimate_worksheets, calcVars, formVars, dbVars, view, csvVars, sessions>>

withoutWrite(k) ==
    SubSeq(estWrite, 1, k - 1) \o SubSeq(estWrite, k + 1, Len(estWrite))

\* the write of saveEstimate or confirmSaveAs returns, and the rest of the
\* handler runs
estimateWritten(k, ok) ==
    /\ k \in DOMAIN estWrite
    /\ LET write == estWrite[k]
           table == IF ~ok THEN estimate_worksheets
                    ELSE IF write.id # NoId
                    THEN [j \in DOMAIN estimate_worksheets |->
                            IF estimate_worksheets[j].id = write.id
                            THEN storedEstimate(write.id, write.data)
                            ELSE estimate_worksheets[j]]
                    ELSE Append(estimate_worksheets,
                                storedEstimate(write.n, write.data))
       IN  /\ estimate_worksheets' = table
           /\ worksheet' =
                IF ~ok
                THEN [worksheet EXCEPT
                        !.saveMessage = IF write.id # NoId
                                        THEN "Error updating estimate"
                                        ELSE "Error saving estimate"]
                ELSE IF write.id # NoId
                THEN [worksheet EXCEPT
                        !.saveMessage = "Estimate updated successfully!",
                        !.savedEstimates = loadSavedEstimates(table)]
                ELSE IF write.by = "saveEstimate"
                THEN [worksheet EXCEPT
                        !.currentEstimateId = write.n,
                        !.saveMessage = "Estimate saved successfully!",
                        !.savedEstimates = loadSavedEstimates(table)]
                ELSE [worksheet EXCEPT
                        !.currentEstimateId = write.n,
                        !.jobName = write.data.job_name,
                        !.saveMessage = "Estimate saved as new version!",
                        !.savedEstimates = loadSavedEstimates(table),
                        !.showSaveAsModal = FALSE]
    /\ estWrite' = IF ok /\ estWrite[k].by = "confirmSaveAs"
                   THEN leftBehind(withoutWrite(k))
                   ELSE withoutWrite(k)
    /\ UNCHANGED <<calcVars, formVars, dbVars, view, csvVars, sessions>>

\* data.overhead_percentage, a decimal(5,2), as the text the store returns
decimalText(hundredths) == toFixedText(hundredths)

loadEstimate(id, ok) ==
    /\ noFocus
    /\ worksheet.showLoadModal
    /\ \E k \in DOMAIN worksheet.savedEstimates :
         worksheet.savedEstimates[k].id = id
    /\ LET found == {j \in DOMAIN estimate_worksheets :
                       estimate_worksheets[j].id = id}
       IN  IF ok /\ found # {}
           THEN LET data == estimate_worksheets[CHOOSE j \in found : TRUE]
                    overhead ==
                      parseFloat(decimalText(data.overhead_percentage)).value
                IN  worksheet' =
                      [worksheet EXCEPT
                         !.currentEstimateId = data.id,
                         !.jobName = data.job_name,
                         !.rows = data.items,
                         !.overheadPercentage = overhead,
                         !.overheadInput = toStringText(overhead),
                         !.showLoadModal = FALSE]
           ELSE UNCHANGED worksheet
    /\ worksheet' # worksheet
    /\ estWrite' = leftBehind(estWrite)
    /\ UNCHANGED <<estimate_worksheets, calcVars, formVars, dbVars, view, csvVars, sessions>>

EstimateInit ==
    /\ worksheet = EstimateMounted
    /\ estimate_worksheets = <<>>
    /\ estWrite = <<>>
    /\ sessions = NoSessions
    /\ csvRow = NoCsvRow
    /\ csvFile = NotExported
    /\ conf \in EstimateConfs
    /\ entries = <<>>
    /\ isSubmitting = FALSE
    /\ sub = Idle
    /\ batch = <<>>
    /\ call = NoCall
    /\ alerts = <<>>
    /\ budget = [submits |-> 0, flightEdits |-> 0]
    /\ DbEmpty
    /\ view = EntryFormMounted
    /\ calcIn = CHOOSE x \in CalcInputs : TRUE
    /\ calcOut = NotComputed

EstimateNext ==
    \/ \E name \in conf.jobNames : setJobName(name)
    \/ \E id \in conf.costIds, value \in conf.costTexts :
         handleCostInputChange(id, value)
    \/ \E id \in conf.costIds : handleCostBlur(id)
    \/ \E id \in conf.costIds, value \in conf.items : handleItemChange(id, value)
    \/ \E value \in conf.overheadTexts : handleOverheadInputChange(value)
    \/ handleOverheadBlur
    \/ addRow
    \/ \E id \in 1..MaxRows : deleteRow(id)
    \/ startNewEstimate
    \/ \E shown \in conf.modals : setShowLoadModal(shown)
    \/ saveMessageTimeout
    \/ saveEstimate
    \/ handleSaveAs
    \/ setShowSaveAsModal
    \/ confirmSaveAs
    \/ \E k \in DOMAIN estWrite, ok \in BOOLEAN : estimateWritten(k, ok)
    \/ \E id \in 1..conf.maxSaves, ok \in BOOLEAN : loadEstimate(id, ok)

SpecEstimate == EstimateInit /\ [][EstimateNext]_vars

-----------------------------------------------------------------------------
(* Two sessions that submit an entry with one expense each:                *)
(* TimeEntriesPage.handleSubmit, run by two browsers on the one store      *)

SessionIds == {1, 2}
TypedRetailers == {"Acme", "Zed"}

sessionUser(s) ==
    IF s = 1 THEN [id |-> "u1", full_name |-> "Ann"]
    ELSE [id |-> "u2", full_name |-> "Bob"]

\* the entry of the form of session s: one expense with a typed retailer name
sessionEntry(s, name) ==
    [createDefaultEntry(s) EXCEPT
       !.location = "Elm St",
       !.user_id = sessionUser(s).id,
       !.full_name = sessionUser(s).full_name,
       !.expenses = <<[createDefaultExpense EXCEPT !.retailer_name = name]>>]

\* handleSubmit of session s has issued the insert of its entry
sessionStart(s, name) ==
    [pc |-> "insert_entry", entry |-> sessionEntry(s, name),
     timeEntryId |-> NoId, retailerId |-> NoId, existingRetailers |-> "none",
     error |-> "none", alerts |-> <<>>]

\* catch: the error is logged and the failure message shown
sessionFailed(s, error) ==
    sessions' = [sessions EXCEPT
                   ![s].pc = "failed", ![s].error = error,
                   ![s].alerts = Append(@, "Failed to submit entries. Please try again.")]

sessionInsertTimeEntry(s, ok) ==
    /\ sessions[s].pc = "insert_entry"
    /\ IF ok
       THEN LET id == Len(time_entries) + 1
            IN  /\ time_entries' =
                     Append(time_entries,
                            [id |-> id] @@ timeEntryRow(sessions[s].entry))
                /\ sessions' = [sessions EXCEPT ![s].pc = "lookup_retailer",
                                                ![s].timeEntryId = id]
       ELSE /\ sessionFailed(s, "request")
            /\ UNCHANGED time_entries
    /\ UNCHANGED <<expenses, retailers, uploads, calcVars, formVars, view,
                   csvVars, estVars>>

sessionLookupRetailer(s, ok) ==
    /\ sessions[s].pc = "lookup_retailer"
    /\ LET name == sessions[s].entry.expenses[1].retailer_name
           found == {r \in DOMAIN retailers : retailers[r] = name}
       IN  sessions' =
             IF ok /\ found # {}
             THEN [sessions EXCEPT ![s].pc = "insert_expense",
                                   ![s].existingRetailers = "one",
                                   ![s].retailerId = CHOOSE r \in found : TRUE]
             ELSE [sessions EXCEPT ![s].pc = "insert_retailer",
                                   ![s].existingRetailers =
                                       IF ok THEN "empty" ELSE "null"]
    /\ UNCHANGED <<dbVars, calcVars, formVars, view, csvVars, estVars>>

\* retailers.name is UNIQUE: the insert of a name the table holds returns
\* error 23505
sessionInsertRetailer(s, ok) ==
    /\ sessions[s].pc = "insert_retailer"
    /\ LET name == sessions[s].entry.expenses[1].retailer_name
       IN  IF ~ok
           THEN /\ sessionFailed(s, "request")
                /\ UNCHANGED retailers
           ELSE IF \E r \in DOMAIN retailers : retailers[r] = name
           THEN /\ sessionFailed(s, "unique_violation")
                /\ UNCHANGED retailers
           ELSE /\ retailers' = Append(retailers, name)
                /\ sessions' = [sessions EXCEPT
                                  ![s].pc = "insert_expense",
                                  ![s].retailerId = Len(retailers) + 1]
    /\ UNCHANGED <<time_entries, expenses, uploads, calcVars, formVars, view,
                   csvVars, estVars>>

sessionInsertExpense(s, ok) ==
    /\ sessions[s].pc = "insert_expense"
    /\ IF ok
       THEN /\ expenses' =
                 Append(expenses,
                        expenseRow(sessions[s].entry,
                                   sessions[s].entry.expenses[1],
                                   sessions[s].timeEntryId,
                                   sessions[s].retailerId)
                          @@ nullExpenseColumns)
            /\ sessions' = [sessions EXCEPT
                              ![s].pc = "done",
                              ![s].alerts = Append(@, "Time entries and expenses submitted successfully!")]
       ELSE /\ sessionFailed(s, "request")
            /\ UNCHANGED expenses
    /\ UNCHANGED <<time_entries, retailers, uploads, calcVars, formVars, view,
                   csvVars, estVars>>

SessionsInit ==
    /\ conf = AdminConf
    /\ sessions \in {[s \in SessionIds |-> sessionStart(s, names[s])] :
                       names \in [SessionIds -> TypedRetailers]}
    /\ retailers \in {<<>>, <<"Zed">>}
    /\ time_entries = <<>>
    /\ expenses = <<>>
    /\ uploads = 0
    /\ entries = <<>>
    /\ isSubmitting = FALSE
    /\ sub = Idle
    /\ batch = <<>>
    /\ call = NoCall
    /\ alerts = <<>>
    /\ budget = [submits |-> 0, flightEdits |-> 0]
    /\ view = EntryFormMounted
    /\ csvRow = NoCsvRow
    /\ csvFile = NotExported
    /\ EstimateIdle
    /\ calcIn = CHOOSE x \in CalcInputs : TRUE
    /\ calcOut = NotComputed

SessionsNext ==
    \/ \E s \in SessionIds, ok \in BOOLEAN : sessionInsertTimeEntry(s, ok)
    \/ \E s \in SessionIds, ok \in BOOLEAN : sessionLookupRetailer(s, ok)
    \/ \E s \in SessionIds, ok \in BOOLEAN : sessionInsertRetailer(s, ok)
    \/ \E s \in SessionIds, ok \in BOOLEAN : sessionInsertExpense(s, ok)

SpecSessions == SessionsInit /\ [][SessionsNext]_vars

-----------------------------------------------------------------------------
(* AdminPage: the time entries view, its filter panel and its row editor   *)
(*                                                                         *)
(* A handler reads the state of the render it was created in: a fetch      *)
(* called in the handler that has just called a setter still reads the     *)
(* value from before the setter.  The effect on [isAdmin, startDate,       *)
(* endDate] runs after the render that follows a change of one of them and *)
(* reads the state of that render.  The search box is left empty.          *)

MaxAdminEdits == 2    \* changes made to the edit form of a row

\* the page before checkAdminStatus has answered
AdminMounted ==
    [activeTab |-> "admin", isAdmin |-> FALSE, startDate |-> 1,
     endDate |-> MaxDate, personFilter |-> "", locationFilter |-> "",
     timeEntries |-> <<>>, editingEntry |-> NoId, editForm |-> [none |-> TRUE],
     alert |-> "", edits |-> 0]

OnAdmin == view.activeTab = "admin" /\ view.isAdmin

\* .order('date', { ascending: false }).order('full_name').order('start_time')
adminBefore(a, b) ==
    \/ a.date > b.date
    \/ /\ a.date = b.date
       /\ \/ nameRank(a.full_name) < nameRank(b.full_name)
          \/ /\ a.full_name = b.full_name
             /\ differenceInMinutes(a.start_time, b.start_time) < 0

RECURSIVE adminInsert(_, _)
adminInsert(row, rows) ==
    IF rows = <<>> THEN <<row>>
    ELSE IF adminBefore(row, Head(rows)) THEN <<row>> \o rows
         ELSE <<Head(rows)>> \o adminInsert(row, Tail(rows))

RECURSIVE adminOrder(_)
adminOrder(rows) ==
    IF rows = <<>> THEN <<>>
    ELSE adminInsert(rows[Len(rows)], adminOrder(SubSeq(rows, 1, Len(rows) - 1)))

\* the query of fetchTimeEntries over a table, for the dates and filters the
\* call reads
adminSelectFrom(table, startDate, endDate, personFilter, locationFilter) ==
    LET hit(r) == /\ r.date >= startDate
                  /\ r.date <= endDate
                  /\ personFilter # "" => r.full_name = personFilter
                  /\ locationFilter # "" => r.location = locationFilter
    IN  adminOrder(SelectSeq(table, hit))

adminSelect(startDate, endDate, personFilter, locationFilter) ==
    adminSelectFrom(time_entries, startDate, endDate, personFilter, locationFilter)

\* fetchTimeEntries as the render of the state v calls it; a failed query
\* leaves the list
adminFetched(v, ok) ==
    IF ok THEN adminSelect(v.startDate, v.endDate, v.personFilter, v.locationFilter)
    ELSE view.timeEntries

\* the alert of the catch of fetchTimeEntries
fetchAlert(ok) == IF ok THEN "" ELSE "Failed to fetch time entries"

\* checkAdminStatus finds an admin: setIsAdmin(true), and the effect fetches
checkAdminStatus(ok) ==
    /\ view.activeTab = "admin"
    /\ ~view.isAdmin
    /\ view' = [view EXCEPT !.isAdmin = TRUE, !.timeEntries = adminFetched(view, ok),
                            !.alert = fetchAlert(ok)]
    /\ UNCHANGED <<calcVars, formVars, dbVars, csvVars, sessions, estVars>>

\* the Start Date input: setStartDate, then the effect fetches
adminSetStartDate(d, ok) ==
    /\ OnAdmin
    /\ conf.filters
    /\ view.startDate # d
    /\ LET next == [view EXCEPT !.startDate = d]
       IN  view' = [next EXCEPT !.timeEntries = adminFetched(next, ok),
                                !.alert = fetchAlert(ok)]
    /\ UNCHANGED <<calcVars, formVars, dbVars, csvVars, sessions, estVars>>

\* the End Date input: setEndDate, then the effect fetches
adminSetEndDate(d, ok) ==
    /\ OnAdmin
    /\ conf.filters
    /\ view.endDate # d
    /\ LET next == [view EXCEPT !.endDate = d]
       IN  view' = [next EXCEPT !.timeEntries = adminFetched(next, ok),
                                !.alert = fetchAlert(ok)]
    /\ UNCHANGED <<calcVars, formVars, dbVars, csvVars, sessions, estVars>>

\* the Employee select: setPersonFilter(e.target.value); fetchTimeEntries()
setPersonFilter(name, ok) ==
    /\ OnAdmin
    /\ conf.filters
    /\ view.personFilter # name
    /\ view' = [view EXCEPT !.personFilter = name,
                            !.timeEntries = adminFetched(view, ok),
                            !.alert = fetchAlert(ok)]
    /\ UNCHANGED <<calcVars, formVars, dbVars, csvVars, sessions, estVars>>

\* the Location select: setLocationFilter(e.target.value); fetchTimeEntries()
setLocationFilter(loc, ok) ==
    /\ OnAdmin
    /\ conf.filters
    /\ view.locationFilter # loc
    /\ view' = [view EXCEPT !.locationFilter = loc,
                            !.timeEntries = adminFetched(view, ok),
                            !.alert = fetchAlert(ok)]
    /\ UNCHANGED <<calcVars, formVars, dbVars, csvVars, sessions, estVars>>

\* Clear Filters: the setters, then fetchTimeEntries() of the render clicked
\* in; when a date changes the effect fetches as well, and the answer that
\* arrives last (fresh or not) stays
adminClearFilters(ok, fresh) ==
    /\ OnAdmin
    /\ conf.filters
    /\ LET next == [view EXCEPT !.personFilter = "", !.locationFilter = "",
                                !.startDate = 1, !.endDate = MaxDate]
           effect == view.startDate # 1 \/ view.endDate # MaxDate
       IN  /\ fresh => effect
           /\ view' = [next EXCEPT
                         !.timeEntries = IF fresh THEN adminFetched(next, ok)
                                         ELSE adminFetched(view, ok),
                         !.alert = fetchAlert(ok)]
    /\ UNCHANGED <<calcVars, formVars, dbVars, csvVars, sessions, estVars>>

\* startEditing(entry)
startEditing(i) ==
    /\ OnAdmin
    /\ conf.edits
    /\ view.editingEntry = NoId
    /\ i \in DOMAIN view.timeEntries
    /\ view' = [view EXCEPT !.editingEntry = view.timeEntries[i].id,
                            !.editForm = view.timeEntries[i], !.alert = ""]
    /\ UNCHANGED <<calcVars, formVars, dbVars, csvVars, sessions, estVars>>

\* cancelEditing
cancelEditing ==
    /\ OnAdmin
    /\ view.editingEntry # NoId
    /\ view' = [view EXCEPT !.editingEntry = NoId, !.editForm = [none |-> TRUE],
                            !.alert = ""]
    /\ UNCHANGED <<calcVars, formVars, dbVars, csvVars, sessions, estVars>>

Editing ==
    /\ OnAdmin
    /\ view.editingEntry # NoId
    /\ view.edits < MaxAdminEdits

\* A variant of withTime that leaves is_full_day as it is.
withTimeKeepingFullDay(form, column, t) == [form EXCEPT ![column] = t]

\* { ...editForm, start_time | end_time: e.target.value, is_full_day: false }
withTime(form, column, t) == [form EXCEPT ![column] = t, !.is_full_day = FALSE]

\* the value the time input of a column shows
shownTime(form, column) ==
    IF form.is_full_day
    THEN (IF column = "start_time" THEN <<9, 0>> ELSE <<17, 0>>)
    ELSE form[column]

\* the time inputs of the row in edit; a change event carries another value
\* than the one shown
setEditTime(column, t) ==
    /\ Editing
    /\ shownTime(view.editForm, column) # t
    /\ view' = [view EXCEPT !.editForm = withTime(@, column, t), !.edits = @ + 1,
                            !.alert = ""]
    /\ UNCHANGED <<calcVars, formVars, dbVars, csvVars, sessions, estVars>>

\* the date input of the row in edit
setEditDate(d) ==
    /\ Editing
    /\ view.editForm.date # d
    /\ view' = [view EXCEPT !.editForm.date = d, !.edits = @ + 1,
                            !.alert = ""]
    /\ UNCHANGED <<calcVars, formVars, dbVars, csvVars, sessions, estVars>>

\* the location input of the row in edit
setEditLocation(loc) ==
    /\ Editing
    /\ view.editForm.location # loc
    /\ view' = [view EXCEPT !.editForm.location = loc, !.edits = @ + 1,
                            !.alert = ""]
    /\ UNCHANGED <<calcVars, formVars, dbVars, csvVars, sessions, estVars>>

\* the lunch break select of the row in edit, set to one of its lengths
setEditLunchBreak(lunch) ==
    /\ Editing
    /\ view.editForm.lunch_break # lunch
    /\ view' = [view EXCEPT !.editForm.lunch_break = lunch, !.edits = @ + 1,
                            !.alert = ""]
    /\ UNCHANGED <<calcVars, formVars, dbVars, csvVars, sessions, estVars>>

\* the columns saveTimeEntry updates
updatedColumns(row, form) ==
    [row EXCEPT !.date = form.date, !.start_time = form.start_time,
                !.end_time = form.end_time, !.location = form.location,
                !.lunch_break = form.lunch_break, !.is_full_day = form.is_full_day]

\* saveTimeEntry: the update, { ...entry, ...editForm } in the list, the end
\* of the edit and fetchTimeEntries(); a failed update alerts and leaves the
\* row in edit
saveTimeEntry(ok, fetchOk) ==
    /\ OnAdmin
    /\ view.editingEntry # NoId
    /\ IF ok
       THEN /\ time_entries' =
                 [k \in DOMAIN time_entries |->
                    IF time_entries[k].id = view.editingEntry
                    THEN updatedColumns(time_entries[k], view.editForm)
                    ELSE time_entries[k]]
            /\ view' =
                 [view EXCEPT
                    !.editingEntry = NoId, !.editForm = [none |-> TRUE],
                    !.alert = fetchAlert(fetchOk),
                    !.timeEntries =
                        IF fetchOk
                        THEN adminSelectFrom(time_entries', view.startDate,
                                             view.endDate, view.personFilter,
                                             view.locationFilter)
                        ELSE [k \in DOMAIN @ |->
                                IF @[k].id = view.editingEntry
                                THEN view.editForm ELSE @[k]]]
       ELSE /\ view' = [view EXCEPT !.alert = "Failed to update time entry"]
            /\ UNCHANGED time_entries
    /\ UNCHANGED <<calcVars, formVars, expenses, retailers, uploads, csvVars,
                   sessions, estVars>>

\* deleteTimeEntry, confirmed: the row is deleted unless an expense refers
\* to it
deleteTimeEntry(entryId) ==
    /\ OnAdmin
    /\ conf.edits
    /\ view.editingEntry = NoId
    /\ \E i \in DOMAIN view.timeEntries : view.timeEntries[i].id = entryId
    /\ \A k \in DOMAIN expenses : expenses[k].time_entry_id # entryId
    /\ LET other(r) == r.id # entryId
       IN  /\ time_entries' = SelectSeq(time_entries, other)
           /\ view' = [view EXCEPT !.timeEntries = SelectSeq(@, other),
                                   !.alert = "Time entry deleted successfully"]
    /\ UNCHANGED <<calcVars, formVars, expenses, retailers, uploads, csvVars,
                   sessions, estVars>>

\* the session of an admin who works with the filter panel
AdminFiltering == [filters |-> TRUE, edits |-> FALSE] @@ AdminConf

\* the session of an admin who edits and deletes rows
AdminEditing == [filters |-> FALSE, edits |-> TRUE] @@ AdminConf

AdminConfs == {AdminFiltering, AdminEditing}

\* rows the entry form wrote on the second day for two employees at two
\* locations, a full day and a partial day each, from entries holding
\* 09:00 - 17:30
AdminRows ==
    {timeEntryRow([formEntry(p, 2, full, <<17, 30>>, Null, loc)
                     EXCEPT !.start_time = <<9, 0>>]) :
        p \in Employees, full \in BOOLEAN, loc \in {"Elm St", "Oak Ave"}}
      \ {r \in {timeEntryRow([formEntry(p, 2, full, <<17, 30>>, Null, loc)
                                EXCEPT !.start_time = <<9, 0>>]) :
                   p \in Employees, full \in BOOLEAN, loc \in {"Elm St", "Oak Ave"}} :
            r.is_full_day = ((r.full_name = "Ann") = (r.location = "Oak Ave"))}

AdminInit ==
    /\ conf \in AdminConfs
    /\ entries = <<createDefaultEntry(1)>>
    /\ isSubmitting = FALSE
    /\ sub = Idle
    /\ batch = <<>>
    /\ call = NoCall
    /\ alerts = <<>>
    /\ budget = [submits |-> 0, flightEdits |-> 0]
    /\ calcIn = CHOOSE x \in CalcInputs : TRUE
    /\ calcOut = NotComputed
    /\ time_entries \in {Stored(s) : s \in {x \in SeqsUpTo(AdminRows, MaxStored) :
                                                Len(x) = MaxStored}}
    /\ expenses = <<>>
    /\ retailers = <<>>
    /\ uploads = 0
    /\ view = AdminMounted
    /\ csvRow = NoCsvRow
    /\ csvFile = NotExported
    /\ EstimateIdle
    /\ sessions = NoSessions

AdminNext ==
    \/ \E ok \in BOOLEAN : checkAdminStatus(ok)
    \/ \E d \in Dates, ok \in BOOLEAN : adminSetStartDate(d, ok)
    \/ \E d \in Dates, ok \in BOOLEAN : adminSetEndDate(d, ok)
    \/ \E name \in {"", "Ann", "Bob"}, ok \in BOOLEAN : setPersonFilter(name, ok)
    \/ \E loc \in {"", "Elm St", "Oak Ave"}, ok \in BOOLEAN : setLocationFilter(loc, ok)
    \/ \E ok, fresh \in BOOLEAN : adminClearFilters(ok, fresh)
    \/ \E i \in 1..MaxStored : startEditing(i)
    \/ cancelEditing
    \/ \E column \in {"start_time", "end_time"}, t \in {<<9, 0>>, <<17, 0>>} :
          setEditTime(column, t)
    \/ \E d \in Dates : setEditDate(d)
    \/ \E loc \in {"Elm St", "Oak Ave"} : setEditLocation(loc)
    \/ \E lunch \in LUNCH_BREAK_OPTIONS : setEditLunchBreak(lunch)
    \/ \E ok, fetchOk \in BOOLEAN : saveTimeEntry(ok, fetchOk)
    \/ \E id \in 1..MaxStored : deleteTimeEntry(id)

SpecAdmin == AdminInit /\ [][AdminNext]_vars

-----------------------------------------------------------------------------
(* The CSV files of the three pages, row by row                            *)
(*                                                                         *)
(* A file is the sequence of its lines, a line a text.  A word without     *)
(* comma and quote (a name, a location, a header) counts as one character  *)
(* of a text.  The rows sampled carry no notes, no receipt and no retailer *)
(* name (null columns), and the description "paint".                       *)

\* the number n < 100 in two digits
pad2(n) == <<digit(n \div 10), digit(n % 10)>>

\* a time column, 'HH:mm'
timeText(t) == pad2(t[1]) \o <<":">> \o pad2(t[2])

\* format(parseISO(date), 'MM/dd/yyyy'), the sampled days being the first
\* days of one month
dateText(date) == <<"0", "1", "/">> \o pad2(date) \o <<"/", "2", "0", "2", "5">>

\* a text cell holding one word
word(w) == stringCell(<<w>>)

\* ''
emptyCell == stringCell(<<>>)

\* entry.lunch_break || ''
lunchCell(entry) ==
    IF entry.lunch_break = Null THEN emptyCell
    ELSE stringCell(timeText(entry.lunch_break))

\* entry.is_full_day ? '09:00' : entry.start_time
startCell(entry) ==
    stringCell(timeText(IF entry.is_full_day THEN <<9, 0>> ELSE entry.start_time))

\* entry.is_full_day ? '17:00' : entry.end_time
endCell(entry) ==
    stringCell(timeText(IF entry.is_full_day THEN <<17, 0>> ELSE entry.end_time))

\* (minutes / 60).toFixed(2)
hoursFixed(minutes) == stringCell(toFixedText(toFixed2(minutes)))

\* amount.toFixed(2) of a whole amount
amountFixed(amount) == stringCell(toFixedText(amount * 100))

\* the rows of all elements of a sequence, one after the other
RECURSIVE flatten(_)
flatten(rowsOf) ==
    IF rowsOf = <<>> THEN <<>> ELSE Head(rowsOf) \o flatten(Tail(rowsOf))

\* rows.map(row => row.map(cell => ...).join(','))
writeRows(rows) == [k \in DOMAIN rows |-> joinCells(rows[k])]

\* ViewActivityPage.exportToCSV: headers
activityHeaders ==
    <<"Date", "Employee", "Location", "Start Time", "End Time", "Lunch Break",
      "Hours", "Full Day", "Notes", "Expense Amount", "Expense Description",
      "Receipt URL">>

\* ViewActivityPage.exportToCSV: the rows of an entry, one per expense; the
\* durations sampled are whole hundredths of an hour
activityRowsOf(entry) ==
    LET baseRow ==
          <<stringCell(dateText(entry.date)), word(entry.full_name),
            word(entry.location), startCell(entry), endCell(entry),
            lunchCell(entry),
            stringCell(toStringText(toFixed2(
                calculateDuration(IF entry.is_full_day THEN <<9, 0>>
                                                       ELSE entry.start_time,
                                  IF entry.is_full_day THEN <<17, 0>>
                                                       ELSE entry.end_time,
                                  entry.lunch_break)))),
            word(IF entry.is_full_day THEN "Yes" ELSE "No"), emptyCell>>
    IN  IF Len(entry.expenses) > 0
        THEN [k \in DOMAIN entry.expenses |->
                baseRow \o <<stringCell(natText(entry.expenses[k].amount)),
                             word("paint"), emptyCell>>]
        ELSE <<baseRow \o <<emptyCell, emptyCell, emptyCell>>>>

\* ViewActivityPage.exportToCSV: the lines of the file
activityFile(es) ==
    <<joinHeaders(activityHeaders)>>
        \o writeRows(flatten([k \in DOMAIN es |-> activityRowsOf(es[k])]))

\* AdminPage.exportToCSV: headers
adminHeaders ==
    <<"Date", "Employee", "Location", "Start Time", "End Time", "Lunch Break",
      "Hours", "Full Day", "Notes", "User ID", "Entry ID">>

\* AdminPage.exportToCSV: the row of an entry; the hours cell is a number
adminRowOf(entry) ==
    <<stringCell(dateText(entry.date)), word(entry.full_name),
      word(entry.location), startCell(entry), endCell(entry), lunchCell(entry),
      numberCell(calculateTotalHours(entry)),
      word(IF entry.is_full_day THEN "Yes" ELSE "No"), emptyCell,
      word(entry.user_id), stringCell(natText(entry.id))>>

\* AdminPage.exportToCSV: the lines of the file
adminFile(es) ==
    <<joinHeaders(adminHeaders)>> \o writeRows([k \in DOMAIN es |-> adminRowOf(es[k])])

\* generateExcel: headers
invoiceHeaders ==
    <<"Date", "Employee", "Start Time", "End Time", "Lunch Break", "Hours",
      "Notes", "Expense Amount", "Expense Description", "Retailer",
      "Receipt URL">>

\* locationSummary.employeeHours[name], in minutes
employeeMinutes(sum, name) ==
    LET i == CHOOSE i \in DOMAIN sum.employeeHours : sum.employeeHours[i].key = name
    IN  sum.employeeHours[i].minutes

\* generateExcel: locationSummary.employeeHours[entry.full_name].toFixed(2)
hoursCell(sum, entry) == hoursFixed(employeeMinutes(sum, entry.full_name))

\* generateExcel: the rows of an entry of the detailed section
invoiceRowsOf(sum, entry) ==
    LET baseRow ==
          <<stringCell(dateText(entry.date)), word(entry.full_name),
            startCell(entry), endCell(entry), lunchCell(entry),
            hoursCell(sum, entry), emptyCell>>
    IN  IF Len(entry.expenses) > 0
        THEN [k \in DOMAIN entry.expenses |->
                baseRow \o <<amountFixed(entry.expenses[k].amount), word("paint"),
                             emptyCell, emptyCell>>]
        ELSE <<baseRow \o <<emptyCell, emptyCell, emptyCell, emptyCell>>>>

\* generateExcel: the summary section, up to the header row of the details
invoiceSummaryRows(sum, selectedLocation, startDate, endDate) ==
    <<<<word("Location Summary:"), word(selectedLocation)>>,
      <<word("Period:"),
        stringCell(dateText(startDate) \o <<" - ">> \o dateText(endDate))>>,
      <<emptyCell>>,
      <<word("Total Hours:"), hoursFixed(sum.totalMinutes)>>,
      <<word("Total Expenses:"),
        stringCell(<<"$">> \o toFixedText(sum.totalExpenses * 100))>>,
      <<emptyCell>>,
      <<word("Employee Hours Breakdown:")>>>>
      \o [i \in DOMAIN sum.employeeHours |->
            <<word(sum.employeeHours[i].key),
              hoursFixed(sum.employeeHours[i].minutes)>>]
      \o <<<<emptyCell>>, <<word("Detailed Time Entries:")>>,
           [k \in DOMAIN invoiceHeaders |-> word(invoiceHeaders[k])]>>

\* generateExcel: the section of the standalone expenses
invoiceStandaloneRows(sum) ==
    IF Len(sum.standaloneExpenses) > 0
    THEN <<<<emptyCell>>,
           <<word("Additional Expenses (from Expense Worksheet):")>>,
           <<word("Date"), word("Expense Amount"), word("Expense Description"),
             word("Retailer"), word("Receipt URL")>>>>
           \o [k \in DOMAIN sum.standaloneExpenses |->
                 <<stringCell(dateText(sum.standaloneExpenses[k].date)),
                   amountFixed(sum.standaloneExpenses[k].amount), word("paint"),
                   emptyCell, emptyCell>>]
    ELSE <<>>

\* generateExcel: the rows of the file
invoiceRows(sum, selectedLocation, startDate, endDate) ==
    invoiceSummaryRows(sum, selectedLocation, startDate, endDate)
      \o flatten([k \in DOMAIN sum.entries |-> invoiceRowsOf(sum, sum.entries[k])])
      \o invoiceStandaloneRows(sum)

\* no file has been downloaded
NoFile == [by |-> "none", lines |-> <<>>]

\* ViewActivityPage.exportToCSV, the Export button of a page with entries
downloadActivity ==
    /\ OnActivity
    /\ csvFile = NoFile
    /\ view.entries # <<>>
    /\ csvFile' = [by |-> "activity", lines |-> activityFile(view.entries)]
    /\ UNCHANGED <<csvRow, calcVars, formVars, dbVars, view, estVars, sessions>>

\* AdminPage.exportToCSV
downloadTimeEntries ==
    /\ OnAdmin
    /\ csvFile = NoFile
    /\ csvFile' = [by |-> "admin", lines |-> adminFile(view.timeEntries)]
    /\ UNCHANGED <<csvRow, calcVars, formVars, dbVars, view, estVars, sessions>>

\* CreateInvoicePage.generateExcel, the Generate button of a page with
\* entries
downloadInvoice ==
    /\ OnInvoice
    /\ csvFile = NoFile
    /\ view.timeEntries # <<>>
    /\ csvFile' = [by |-> "invoice",
                   lines |-> writeRows(invoiceRows(locationSummary,
                                                   view.selectedLocation,
                                                   view.startDate, view.endDate))]
    /\ UNCHANGED <<csvRow, calcVars, formVars, dbVars, view, estVars, sessions>>

\* the stored rows the files are made of: full days of one employee at two
\* locations, an expense of the first row and expenses of the worksheet
FilesInit ==
    /\ conf = AdminConf
    /\ entries = <<createDefaultEntry(1)>>
    /\ isSubmitting = FALSE
    /\ sub = Idle
    /\ batch = <<>>
    /\ call = NoCall
    /\ alerts = <<>>
    /\ budget = [submits |-> 0, flightEdits |-> 0]
    /\ calcIn = CHOOSE x \in CalcInputs : TRUE
    /\ calcOut = NotComputed
    /\ retailers = <<>>
    /\ uploads = 0
    /\ time_entries \in {Stored(s) : s \in SeqsUpTo(SiteRows, MaxStored) \ {<<>>}}
    /\ expenses \in SeqsUpTo(ExpenseRows, MaxStandalone)
    /\ view \in {ActivityMounted, AdminMounted}
    /\ csvRow = NoCsvRow
    /\ csvFile = NoFile
    /\ EstimateIdle
    /\ sessions = NoSessions

FilesNext ==
    \/ \E tab \in {"view-activity", "create-invoice"} : setActiveTab(tab)
    \/ \E ok \in BOOLEAN : fetchEntries(ok)
    \/ \E loc \in {"Elm St", "Oak Ave"} : setSelectedLocation(loc)
    \/ \E d \in {2, MaxDate} : setInvoiceStartDate(d)
    \/ \E entriesOk, expensesOk \in BOOLEAN : fetchTimeEntries(entriesOk, expensesOk)
    \/ \E ok \in BOOLEAN : checkAdminStatus(ok)
    \/ downloadActivity
    \/ downloadTimeEntries
    \/ downloadInvoice

SpecFiles == FilesInit /\ [][FilesNext]_vars

-----------------------------------------------------------------------------
(* Claims about the duration calculators *)

MinuteOfDay(t) == t[1] * 60 + t[2]

\* minutes worked by the partial-day formula: end - start - lunch, lunch
\* counting 0 when no lunch break is recorded
WorkedMinutes(entry) ==
    MinuteOfDay(entry.end_time) - MinuteOfDay(entry.start_time)
      - (IF entry.has_lunch_break THEN MinuteOfDay(entry.lunch_break) ELSE 0)

Abs(n) == IF n < 0 THEN -n ELSE n

\* h (hundredths of an hour) is minutes / 60 rounded to 2 decimal places:
\* |100 * minutes / 60 - h| <= 1/2
IsRound2(h, minutes) == 2 * Abs(5 * minutes - 3 * h) <= 3

\* C1: for every full-day entry, whatever its start time, end time and lunch
\* length, calculateEntryHours and calculateTotalHours return 7.5 when a
\* lunch break is recorded and 8.0 when none is.
C1_FullDayFixedHours ==
    (calcOut.done /\ calcIn.is_full_day) =>
        /\ calcOut.entryHours = (IF calcIn.has_lunch_break THEN 750 ELSE 800)
        /\ calcOut.totalHours = (IF calcIn.has_lunch_break THEN 750 ELSE 800)

\* a full-day entry away from the 08:00-16:30 sentinels, with a 45 minute
\* lunch break, has been computed
C1_Witness ==
    /\ calcOut.done /\ calcIn.is_full_day
    /\ calcIn.start_time = <<9, 10>> /\ calcIn.end_time = <<17, 30>>
    /\ calcIn.lunch_break = <<0, 45>>
    /\ calcOut.entryHours = 750

\* C2: for every partial-day entry both calculators return
\* (end minutes - start minutes - lunch minutes) / 60 rounded to 2 decimal
\* places; 09:00 to 17:30 with a 00:30 lunch gives 8.0.
C2_PartialDayRounded ==
    (calcOut.done /\ ~calcIn.is_full_day) =>
        /\ IsRound2(calcOut.entryHours, WorkedMinutes(calcIn))
        /\ IsRound2(calcOut.totalHours, WorkedMinutes(calcIn))
        /\ (/\ calcIn.start_time = <<9, 0>> /\ calcIn.end_time = <<17, 30>>
            /\ calcIn.lunch_break = <<0, 30>>)
           => (calcOut.entryHours = 800 /\ calcOut.totalHours = 800)

\* a partial-day entry of 10 minutes (0.1666... hours, rounded up to 0.17)
C2_Witness ==
    /\ calcOut.done /\ ~calcIn.is_full_day
    /\ calcIn.start_time = <<9, 0>> /\ calcIn.end_time = <<9, 10>>
    /\ calcIn.lunch_break = Null
    /\ calcOut.entryHours = 17 /\ calcOut.totalHours = 17

-----------------------------------------------------------------------------
(* Claims about the overage confirmation *)

\* the duration of section 4.1 in hundredths of an hour: 7.5 or 8.0 for a
\* full day, else (end - start - lunch) / 60 rounded to 2 decimal places;
\* lunch is Null when no lunch break is recorded
Duration41(full, start, end, lunch) ==
    IF full THEN (IF lunch # Null THEN 750 ELSE 800)
    ELSE LET minutes == MinuteOfDay(end) - MinuteOfDay(start)
                          - (IF lunch # Null THEN MinuteOfDay(lunch) ELSE 0)
             floor == (5 * minutes) \div 3
         IN  CHOOSE h \in (floor - 1)..(floor + 1) : IsRound2(h, minutes)

FormDuration(entry) ==
    Duration41(entry.is_full_day, entry.start_time, entry.end_time,
               IF entry.has_lunch_break THEN entry.lunch_break ELSE Null)

\* the (employeeOrSelf, date, hours) tuples of the entries over 8 hours
OverageTuples(es) ==
    LET over == SelectSeq(es, LAMBDA e : FormDuration(e) > 800)
    IN  [k \in DOMAIN over |->
            <<IF conf.isAdmin THEN over[k].full_name ELSE "this employee",
              over[k].date, FormDuration(over[k])>>]

\* C3: a handleSubmit call shows the confirmation prompt if and only if some
\* entry of the batch has a duration strictly over 8.0 hours; a batch whose
\* longest entry is exactly 8.0 goes on to the write loop without a prompt;
\* the prompt lists exactly the entries over 8.0.
C3_PromptIffOver8 ==
    call.made =>
        /\ call.prompted <=> (\E i \in DOMAIN call.entries :
                                 FormDuration(call.entries[i]) > 800)
        /\ call.list = OverageTuples(call.entries)
        /\ ~call.prompted => call.proceeded

\* a batch of two entries, one of exactly 8.0 hours and one over 8 hours,
\* was submitted: the prompt was shown with one line
C3_Witness ==
    /\ call.made /\ call.prompted
    /\ Len(call.entries) = 2 /\ Len(call.list) = 1
    /\ \E i \in DOMAIN call.entries : FormDuration(call.entries[i]) = 800

\* the handleSubmit call of this step was declined at the prompt
Declined == call' # call /\ call'.made /\ call'.prompted /\ ~call'.answer

\* C4: when the user declines the confirmation, no row is written to
\* time_entries, expenses, retailers or storage, the write loop is not
\* entered, and the entries of the form and isSubmitting stay as they were.
C4_DeclineAbortsBatch ==
    [][Declined => /\ UNCHANGED <<time_entries, expenses, retailers, uploads>>
                   /\ UNCHANGED <<entries, isSubmitting>>
                   /\ sub' = Idle]_vars

\* a batch of two entries, one of them not over 8 hours, was declined
C4_Witness ==
    /\ call.made /\ call.prompted /\ ~call.answer
    /\ Len(call.entries) = 2
    /\ \E i \in DOMAIN call.entries : FormDuration(call.entries[i]) <= 800
    /\ entries = call.entries /\ ~isSubmitting

-----------------------------------------------------------------------------
(* Claims about the reports *)

\* the section 4.1 duration of a stored row, in hundredths of an hour
RowDuration(row) ==
    Duration41(row.is_full_day, row.start_time, row.end_time, row.lunch_break)

RECURSIVE SumRowDuration(_)
SumRowDuration(rows) ==
    IF rows = <<>> THEN 0 ELSE RowDuration(Head(rows)) + SumRowDuration(Tail(rows))

\* minutes / 60 hours is the same number as hundredths / 100 hours
SameHours(minutes, hundredths) == 5 * minutes = 3 * hundredths

\* C5: on the activity dashboard the hours counted for every displayed entry,
\* and with them the Total Hours tile and the totals of the person groups,
\* equal the section 4.1 duration: a full-day row stored with 08:00 and 16:30
\* counts 7.5 with a lunch break and 8.0 without.
C5_DashboardHoursAreDuration ==
    OnActivity =>
        /\ \A i \in DOMAIN view.entries :
              SameHours(entryDuration(view.entries[i]), RowDuration(view.entries[i]))
        /\ SameHours(summary.totalMinutes, SumRowDuration(view.entries))
        /\ \A g \in DOMAIN groupedEntries :
              \A l \in DOMAIN groupedEntries[g].locations :
                 SameHours(groupedEntries[g].locations[l].totalMinutes,
                           SumRowDuration(groupedEntries[g].locations[l].entries))

\* C6: in the invoice generator the hours added to totalHours and to
\* employeeHours for every entry equal the section 4.1 duration: a full-day
\* entry adds 7.5 with a lunch break of any length and 8.0 without.
C6_InvoiceHoursAreDuration ==
    OnInvoice =>
        /\ \A i \in DOMAIN view.timeEntries :
              view.timeEntries[i].is_full_day =>
                 SameHours(invoiceMinutes(view.timeEntries[i]),
                           IF view.timeEntries[i].lunch_break # Null
                           THEN 750 ELSE 800)
        /\ \A i \in DOMAIN view.timeEntries :
              SameHours(invoiceMinutes(view.timeEntries[i]),
                        RowDuration(view.timeEntries[i]))
        /\ SameHours(locationSummary.totalMinutes, SumRowDuration(view.timeEntries))

\* the hours (in minutes) the dashboard counts for the entries of one day and
\* one employee name
RECURSIVE DayTotal(_, _, _)
DayTotal(es, day, name) ==
    IF es = <<>> THEN 0
    ELSE (IF Head(es).date = day /\ Head(es).full_name = name
          THEN entryDuration(Head(es)) ELSE 0) + DayTotal(Tail(es), day, name)

EntryDates(es) == {es[i].date : i \in DOMAIN es}

EntryNames(es) == {es[i].full_name : i \in DOMAIN es}

\* the chart has the given days as its buckets, in order, one series for
\* every name, one value per bucket in every series, the value being the sum
\* of the hours of the entries of that day and name (0 without any)
ChartShows(chart, es, days) ==
    /\ chart # Null
    /\ Len(chart.labels) = Cardinality(days)
    /\ {chart.labels[k] : k \in DOMAIN chart.labels} = days
    /\ \A j, k \in DOMAIN chart.labels : j < k => chart.labels[j] < chart.labels[k]
    /\ \A name \in EntryNames(es) :
          Cardinality({s \in DOMAIN chart.datasets :
                          chart.datasets[s].label = name}) = 1
    /\ \A s \in DOMAIN chart.datasets :
          /\ chart.datasets[s].label \in EntryNames(es)
          /\ Len(chart.datasets[s].data) = Len(chart.labels)
          /\ \A k \in DOMAIN chart.labels :
                chart.datasets[s].data[k] =
                    DayTotal(es, chart.labels[k], chart.datasets[s].label)

ChartCase == OnActivity /\ view.entries # <<>> /\ view.startDate <= view.endDate

\* C7 as stated: for startDate <= endDate and displayed entries, the chart
\* has exactly the days of [startDate, endDate] as buckets (N buckets for N
\* days), one value per bucket in every series, each the sum of the hours of
\* that day and employee, 0 without an entry.
C7_ChartHasRangeBuckets ==
    ChartCase =>
        /\ ChartShows(chartData, view.entries, view.startDate..view.endDate)
        /\ ChartShows(chartData2, view.entries, view.startDate..view.endDate)

\* C7, amended: the buckets are the days of [startDate, endDate] and the
\* dates of the displayed entries outside it (entries fetched for an earlier
\* range stay displayed when a date input changes); every series has one
\* value per bucket, the sum of the hours of that day and employee, 0 without
\* an entry.  With every displayed entry dated in the range there are
\* exactly N buckets.
C7_ChartBuckets ==
    ChartCase =>
        LET days == (view.startDate..view.endDate) \cup EntryDates(view.entries)
        IN  /\ ChartShows(chartData, view.entries, days)
            /\ ChartShows(chartData2, view.entries, days)
            /\ EntryDates(view.entries) \subseteq view.startDate..view.endDate
                  => Len(chartData.labels) = view.endDate - view.startDate + 1

\* entries on day 1 and day 3 of the range 1..3: three buckets, day 2 is 0 in
\* every series
C7_Witness ==
    /\ ChartCase
    /\ view.startDate = 1 /\ view.endDate = 3
    /\ EntryDates(view.entries) = {1, 3}
    /\ chartData.labels = <<1, 2, 3>>
    /\ \A s \in DOMAIN chartData.datasets : chartData.datasets[s].data[2] = 0
    /\ \E s \in DOMAIN chartData.datasets : chartData.datasets[s].data[1] > 0

RECURSIVE NameTotal(_, _)
NameTotal(es, name) ==
    IF es = <<>> THEN 0
    ELSE (IF Head(es).full_name = name THEN entryDuration(Head(es)) ELSE 0)
           + NameTotal(Tail(es), name)

RECURSIVE InvoiceNameTotal(_, _)
InvoiceNameTotal(es, name) ==
    IF es = <<>> THEN 0
    ELSE (IF Head(es).full_name = name THEN invoiceMinutes(Head(es)) ELSE 0)
           + InvoiceNameTotal(Tail(es), name)

\* C8: the entries of one full_name fall into exactly one person group of the
\* dashboard and one employeeHours key of the invoice, whose hours are the sum
\* over those entries, whatever their user_id; a group holds entries of its
\* own name only and there is no group without an entry.
C8_GroupedByName ==
    /\ OnActivity =>
          /\ \A name \in EntryNames(view.entries) :
                /\ Cardinality({g \in DOMAIN groupedEntries :
                                   groupedEntries[g].key = name}) = 1
                /\ \A g \in DOMAIN groupedEntries :
                      groupedEntries[g].key = name =>
                         groupedEntries[g].totalMinutes = NameTotal(view.entries, name)
          /\ \A g \in DOMAIN groupedEntries :
                /\ groupedEntries[g].key \in EntryNames(view.entries)
                /\ \A l \in DOMAIN groupedEntries[g].locations :
                      \A e \in DOMAIN groupedEntries[g].locations[l].entries :
                         groupedEntries[g].locations[l].entries[e].full_name
                            = groupedEntries[g].key
    /\ OnInvoice =>
          /\ \A name \in EntryNames(view.timeEntries) :
                /\ Cardinality({h \in DOMAIN locationSummary.employeeHours :
                                   locationSummary.employeeHours[h].key = name}) = 1
                /\ \A h \in DOMAIN locationSummary.employeeHours :
                      locationSummary.employeeHours[h].key = name =>
                         locationSummary.employeeHours[h].minutes
                            = InvoiceNameTotal(view.timeEntries, name)
          /\ \A h \in DOMAIN locationSummary.employeeHours :
                locationSummary.employeeHours[h].key \in EntryNames(view.timeEntries)

\* two displayed entries of two employees with one name are in one group
C8_Witness ==
    /\ OnActivity
    /\ Len(view.entries) = 2
    /\ view.entries[1].full_name = view.entries[2].full_name
    /\ view.entries[1].user_id # view.entries[2].user_id
    /\ Len(groupedEntries) = 1
    /\ groupedEntries[1].totalMinutes
          = entryDuration(view.entries[1]) + entryDuration(view.entries[2])

\* the sum of the amounts of expense rows
RECURSIVE AmountTotal(_)
AmountTotal(rows) ==
    IF rows = <<>> THEN 0 ELSE Head(rows).amount + AmountTotal(Tail(rows))

\* children of the given entries, and standalone expenses of a date range
\* and (unless empty) a location
ExpensesOf(es, startDate, endDate, location) ==
    LET ids == {es[i].id : i \in DOMAIN es}
        counted(e) ==
            \/ e.time_entry_id \in ids
            \/ /\ e.time_entry_id = NoId
               /\ e.date # NoDate /\ e.date >= startDate /\ e.date <= endDate
               /\ location # "" => e.location = location
    IN  AmountTotal(SelectSeq(expenses, counted))

\* C9: in the invoice summary and in the dashboard summary, total expenses is
\* the sum of the expenses that are children of the fetched entries plus the
\* standalone expenses matching the filters of the fetch, each counted once.
C9_TotalExpensesComplete ==
    /\ (/\ OnActivity
        /\ view.startDate <= view.endDate
        /\ view.entries # <<>>
        /\ view.entries = fetchedEntries)
          => summary.totalExpenses
                = ExpensesOf(view.entries, view.startDate, view.endDate, view.location)
    /\ (/\ OnInvoice
        /\ view.selectedLocation # ""
        /\ view.timeEntries
              = orderByDate(selectTimeEntries(view.startDate, view.endDate,
                                              view.selectedLocation, ""), TRUE)
        /\ view.standaloneExpenses
              = orderByDate(selectExpenses(view.selectedLocation, view.startDate,
                                           view.endDate), TRUE))
          => locationSummary.totalExpenses
                = ExpensesOf(view.timeEntries, view.startDate, view.endDate,
                             view.selectedLocation)

-----------------------------------------------------------------------------
(* Claims about the CSV exports *)

\* the fields of a CSV record read by the standard quoting rules: a field
\* in double quotes ends at a quote that is not doubled, a doubled quote in
\* it is one quote, and a comma outside quotes ends a field
RECURSIVE ReadFields(_, _, _, _)
ReadFields(line, quoted, field, fields) ==
    IF line = <<>> THEN Append(fields, field)
    ELSE IF quoted
         THEN IF Head(line) = "\""
              THEN IF Len(line) >= 2 /\ line[2] = "\""
                   THEN ReadFields(Tail(Tail(line)), TRUE, Append(field, "\""), fields)
                   ELSE ReadFields(Tail(line), FALSE, field, fields)
              ELSE ReadFields(Tail(line), TRUE, Append(field, Head(line)), fields)
         ELSE IF Head(line) = "\""
              THEN ReadFields(Tail(line), TRUE, field, fields)
              ELSE IF Head(line) = ","
                   THEN ReadFields(Tail(line), FALSE, <<>>, Append(fields, field))
                   ELSE ReadFields(Tail(line), FALSE, Append(field, Head(line)), fields)

\* the text with every double quote written twice
RECURSIVE Doubled(_)
Doubled(text) ==
    IF text = <<>> THEN <<>>
    ELSE IF Head(text) = "\"" THEN <<"\"", "\"">> \o Doubled(Tail(text))
    ELSE <<Head(text)>> \o Doubled(Tail(text))

\* the text a cell stands for
CellText(cell) ==
    IF cell.typeof = "string" THEN cell.text
    ELSE IF cell.typeof = "number" THEN toStringText(cell.value)
    ELSE <<>>

\* the part of the line written for cell k: the cells before it are read
\* back from the line up to there
Written(row, k) ==
    LET upTo == joinCells(SubSeq(row, 1, k))
        before == IF k = 1 THEN <<>> ELSE joinCells(SubSeq(row, 1, k - 1)) \o <<",">>
    IN  SubSeq(upTo, Len(before) + 1, Len(upTo))

\* C10: in each of the three CSV exports every text cell of a data row is
\* written in double quotes with every embedded double quote doubled, and the
\* row reads back as its cells, one field per cell, whatever commas and
\* quotes the texts hold.
C10_TextCellsQuoted ==
    csvFile.by # "none" =>
        /\ \A k \in DOMAIN csvFile.row :
              csvFile.row[k].typeof = "string" =>
                 Written(csvFile.row, k)
                    = <<"\"">> \o Doubled(csvFile.row[k].text) \o <<"\"">>
        /\ ReadFields(csvFile.lines[2], FALSE, <<>>, <<>>)
              = [k \in DOMAIN csvFile.row |-> CellText(csvFile.row[k])]

\* an export wrote a name holding a comma and a quote, in quotes and with the
\* quote doubled
C10_Witness ==
    /\ csvFile.by = "activity"
    /\ csvFile.row[1].text = <<",", "\"">>
    /\ SubSeq(csvFile.lines[2], 1, 5) = <<"\"", ",", "\"", "\"", "\"">>
    /\ Len(ReadFields(csvFile.lines[2], FALSE, <<>>, <<>>)) = 4

-----------------------------------------------------------------------------
(* Claims about the estimate worksheet *)

RECURSIVE SumCosts(_)
SumCosts(rows) ==
    IF rows = <<>> THEN 0 ELSE Head(rows).cost + SumCosts(Tail(rows))

\* subtotal, overhead and total are the derived values of these rows and this
\* percentage
Derived(rows, percentage, amount, overhead, sum) ==
    /\ amount = SumCosts(rows)
    /\ overhead = amount * percentage  \* hundredths by hundredths, over 100
    /\ sum = inMillionths(amount) + overhead

\* C11: in every state of the worksheet subtotal is the sum of the costs of
\* the current rows, overheadAmount is subtotal * overheadPercentage / 100
\* and total is subtotal + overheadAmount; the values a Save or Save As
\* writes are these values for the rows written in the same call.
C11_TotalsAreDerived ==
    worksheet # NoWorksheet =>
      /\ Derived(worksheet.rows, worksheet.overheadPercentage,
                 subtotal, overheadAmount, total)
      /\ \A k \in DOMAIN estWrite :
           LET data == estWrite[k].data
           IN  Derived(data.items, data.overhead_percentage,
                       data.subtotal, data.overhead_amount, data.total)

\* a Save is in flight for rows with costs while the page, edited since,
\* shows another subtotal, and an earlier Save has been stored
C11_Witness ==
    /\ worksheet # NoWorksheet
    /\ estWrite # <<>>
    /\ estWrite[1].data.subtotal > 0
    /\ estWrite[1].data.overhead_amount > 0
    /\ subtotal # estWrite[1].data.subtotal
    /\ estimate_worksheets # <<>>

\* the cents a currency text shows
ShownCents(text) ==
    LET digits == SelectSeq(text, isDigit)
    IN  IF text # <<>> /\ Head(text) = "-" THEN 0 - natValue(digits)
        ELSE natValue(digits)

\* cents is millionths rounded to two decimals, ties away from zero
IsRoundedCents(cents, millionths) ==
    LET diff == millionths - inMillionths(cents)
    IN  /\ Abs(diff) * 2 <= 10000
        /\ Abs(diff) * 2 = 10000 => Abs(inMillionths(cents)) > Abs(millionths)

WholeCents(rows) == \A k \in DOMAIN rows : rows[k].cost \in Int

CostsAre(costs) ==
    /\ Len(worksheet.rows) >= Len(costs)
    /\ \A k \in DOMAIN worksheet.rows :
         worksheet.rows[k].cost = IF k <= Len(costs) THEN costs[k] ELSE 0

\* C12: money is rounded only where it is displayed: the displayed total is
\* the unrounded total rounded to two decimals and is within one cent of the
\* displayed subtotal plus the displayed overhead; rows 10.00 and 20.50 at
\* 15% display 30.50, 4.58 and 35.08.
C12_RoundedAtDisplay ==
    (worksheet # NoWorksheet /\ WholeCents(worksheet.rows)) =>
      /\ IsRoundedCents(ShownCents(displayedTotal), total)
      /\ IsRoundedCents(ShownCents(displayedOverhead), overheadAmount)
      /\ ShownCents(displayedSubtotal) = subtotal
      /\ Abs(ShownCents(displayedTotal)
               - (ShownCents(displayedSubtotal) + ShownCents(displayedOverhead)))
           <= 1
      /\ (CostsAre(<<1000, 2050>>) /\ worksheet.overheadPercentage = 1500) =>
           /\ displayedSubtotal = <<"$", "3", "0", ".", "5", "0">>
           /\ displayedOverhead = <<"$", "4", ".", "5", "8">>
           /\ displayedTotal = <<"$", "3", "5", ".", "0", "8">>

\* rows 10.00 and 20.50 at 15%: the overhead 4.575 lies between two cents
C12_Witness ==
    /\ worksheet # NoWorksheet
    /\ CostsAre(<<1000, 2050>>)
    /\ worksheet.overheadPercentage = 1500
    /\ overheadAmount = 4575000

\* the number a typed amount stands for, sign included
TypedAmount(text) == IF parseFloat(text).isNaN THEN 0 ELSE parseFloat(text).value

costOf(rows, id) == rows[CHOOSE k \in DOMAIN rows : rows[k].id = id].cost

\* leaving the cost field of a row with a negative amount typed into it
LeavesNegative(id) ==
    /\ worksheet # NoWorksheet
    /\ id \in DOMAIN worksheet.costInputs
    /\ TypedAmount(worksheet.costInputs[id]) < 0
    /\ handleCostBlur(id)

\* C13: a negative amount typed into the cost field of a row becomes, when the
\* field is left, the cost of the row, and subtotal and total go down
\* accordingly.
C13_NegativeCostAccepted ==
    [][\A id \in 1..MaxRows :
         LeavesNegative(id) =>
           /\ costOf(worksheet'.rows, id) = TypedAmount(worksheet.costInputs[id])
           /\ sumOfCosts(worksheet'.rows)
                = subtotal - costOf(worksheet.rows, id)
                    + TypedAmount(worksheet.costInputs[id])]_vars

-----------------------------------------------------------------------------
(* Claims about the steps of a submission *)

FailMessage == "Failed to submit entries. Please try again."

AtExpense == sub.pc \in {"lookup_retailer", "insert_retailer", "insert_expense"}

\* the expense row is the row of one of the expenses of the entry
IsExpenseOf(row, entry) ==
    \E x \in DOMAIN entry.expenses : row.amount = entry.expenses[x].amount

\* the rows of the first n entries of the batch in progress are the last n
\* rows of time_entries, in the order of the form
WrittenBefore(n) ==
    /\ Len(time_entries) >= n
    /\ \A j \in 1..n :
         LET k == Len(time_entries) - n + j
         IN  time_entries[k] = [id |-> k] @@ timeEntryRow(batch[j])

\* C14: the entries of a submission are written one at a time in the order
\* of the form; an expense insert is issued only once the insert of its entry
\* has returned, and carries the id that insert generated; no expense row is
\* written for an entry that has no row.
C14_ExpenseAfterItsEntry ==
    [][/\ time_entries' # time_entries =>
             /\ sub.pc = "insert_entry"
             /\ WrittenBefore(sub.idx - 1)
             /\ time_entries' = Append(time_entries,
                                        [id |-> Len(time_entries) + 1]
                                           @@ timeEntryRow(batch[sub.idx]))
             /\ expenses' = expenses
       /\ AtExpense =>
             /\ WrittenBefore(sub.idx)
             /\ sub.timeEntryId = time_entries[Len(time_entries)].id
       /\ expenses' # expenses =>
             /\ sub.pc = "insert_expense"
             /\ time_entries' = time_entries
             /\ \E row \in {expenses'[Len(expenses')]} :
                   /\ expenses' = Append(expenses, row)
                   /\ row.time_entry_id = time_entries[Len(time_entries)].id
                   /\ IsExpenseOf(row, batch[sub.idx])]_vars

\* the expense of the second entry of a batch has been written
C14_Witness ==
    /\ Len(time_entries) = 2
    /\ expenses # <<>>
    /\ expenses[1].time_entry_id = time_entries[2].id

LastAlert(as) == IF as = <<>> THEN "" ELSE as[Len(as)]

\* a step at which the submission in progress fails
SubmissionFails ==
    /\ sub.pc # "idle"
    /\ sub'.pc = "idle"
    /\ LastAlert(alerts') = FailMessage

HasFailed == sub.pc = "idle" /\ LastAlert(alerts) = FailMessage

SameEntries(es, fs) ==
    /\ Len(es) = Len(fs)
    /\ \A k \in DOMAIN es : [es[k] EXCEPT !.id = 0] = [fs[k] EXCEPT !.id = 0]

PersistenceFails ==
    \/ InsertTimeEntry(FALSE)
    \/ LookupRetailer(FALSE)
    \/ InsertRetailer(FALSE)
    \/ InsertExpense(FALSE)

\* C16: every persistence failure of a submission (time entry insert,
\* retailer lookup, retailer insert, expense insert) ends the submission and
\* is reported with the failure message; nothing is written after it.
C16_EveryFailureEndsSubmission ==
    [][PersistenceFails =>
         /\ sub'.pc = "idle"
         /\ LastAlert(alerts') = FailMessage
         /\ dbVars' = dbVars]_vars

-----------------------------------------------------------------------------
(* Claims about retailers *)

typedRetailer(s) == sessions[s].entry.expenses[1].retailer_name

\* No retailer is named Acme before the sessions start: the third part of the
\* claim is about two sessions that both type Acme and whose lookups return.

\* C17: retailers are get-or-create by name: an expense submitted with a typed
\* retailer name is linked to a retailer row of that name, which is created
\* only when there is none, so no two retailer rows have the same name; under
\* every interleaving of two sessions naming the same new retailer neither
\* submission fails because the other created the row first.
C17_RetailerGetOrCreate ==
    /\ \A r, q \in DOMAIN retailers : retailers[r] = retailers[q] => r = q
    /\ \A e \in DOMAIN expenses, s \in SessionIds :
         sessions[s].timeEntryId = expenses[e].time_entry_id =>
           /\ expenses[e].retailer_id \in DOMAIN retailers
           /\ retailers[expenses[e].retailer_id] = typedRetailer(s)
    /\ (/\ typedRetailer(1) = "Acme"
        /\ typedRetailer(2) = "Acme"
        /\ \A s \in SessionIds : sessions[s].existingRetailers # "null") =>
         \A s \in SessionIds : sessions[s].error # "unique_violation"

-----------------------------------------------------------------------------
(* Claims about the hours of a day and about end times before start times *)

\* the employee an entry is saved for
SavedFor(entry) == IF conf.isAdmin THEN entry.user_id ELSE conf.userId

\* the hours the batch enters for the employee and the day of entry i
RECURSIVE DayHours(_, _, _)
DayHours(es, user, date) ==
    IF es = <<>> THEN 0
    ELSE (IF SavedFor(Head(es)) = user /\ Head(es).date = date
          THEN FormDuration(Head(es)) ELSE 0)
           + DayHours(Tail(es), user, date)

\* C18: whenever the hours a batch enters for one employee on one day add up
\* to more than 8, the confirmation prompt is shown before a row is written.
C18_PromptWhenDayOver8 ==
    call.made =>
        \A i \in DOMAIN call.entries :
            DayHours(call.entries, SavedFor(call.entries[i]),
                     call.entries[i].date) > 800
              => call.prompted

EndsBeforeStart(entry) ==
    /\ ~entry.is_full_day
    /\ MinuteOfDay(entry.end_time) < MinuteOfDay(entry.start_time)

\* C19: for a partial-day entry whose end time is earlier than its start time
\* calculateEntryHours returns the negative value of the partial-day formula,
\* not clamped to 0, and the submission of the entry is neither rejected nor
\* prompted for.
C19_NegativeDurationSubmitted ==
    call.made =>
        /\ \A i \in DOMAIN call.entries :
              EndsBeforeStart(call.entries[i]) =>
                /\ calculateEntryHours(call.entries[i]) < 0
                /\ calculateEntryHours(call.entries[i])
                     = FormDuration(call.entries[i])
                /\ \A k \in DOMAIN call.list :
                      call.list[k] # promptLine(call.entries[i])
        /\ (\A i \in DOMAIN call.entries : FormDuration(call.entries[i]) <= 800)
              => ~call.prompted /\ call.proceeded

\* an entry from 17:00 to 09:00 was submitted without a prompt and its row
\* is stored
C19_Witness ==
    /\ call.made /\ ~call.prompted /\ call.proceeded
    /\ \E i \in DOMAIN call.entries :
          /\ EndsBeforeStart(call.entries[i])
          /\ call.entries[i].end_time = <<9, 0>>
          /\ calculateEntryHours(call.entries[i]) = 0 - 850
    /\ \E r \in DOMAIN time_entries :
          /\ ~time_entries[r].is_full_day
          /\ MinuteOfDay(time_entries[r].end_time)
               < MinuteOfDay(time_entries[r].start_time)

-----------------------------------------------------------------------------
(* Claims about the nested activity display *)

\* the (person group, location group, position) places of the display that
\* hold the entry of an id
PlacesOf(id) ==
    {<<g, l, e>> \in (DOMAIN groupedEntries) \X (1..MaxGrouped) \X (1..MaxGrouped) :
        /\ l \in DOMAIN locationEntries(groupedEntries[g])
        /\ e \in DOMAIN locationEntries(groupedEntries[g])[l].entries
        /\ locationEntries(groupedEntries[g])[l].entries[e].id = id}

\* C20: the display lists the person groups in ascending order of name, the
\* location groups of a person in ascending order of location and the entries
\* of a location group in descending order of date; every fetched entry is in
\* exactly one group, the one of its person and location.
C20_NestedDisplayOrdered ==
    (OnActivity /\ Len(view.entries) <= MaxGrouped) =>
        /\ \A g, h \in DOMAIN groupedEntries :
              g < h => nameRank(groupedEntries[g].key)
                         < nameRank(groupedEntries[h].key)
        /\ \A g \in DOMAIN groupedEntries :
              LET locs == locationEntries(groupedEntries[g])
              IN  /\ \A l, m \in DOMAIN locs :
                        l < m => locationRank(locs[l].key) < locationRank(locs[m].key)
                  /\ \A l \in DOMAIN locs :
                        \A e, f \in DOMAIN locs[l].entries :
                           e < f => locs[l].entries[e].date >= locs[l].entries[f].date
        /\ \A i \in DOMAIN view.entries :
              /\ Cardinality(PlacesOf(view.entries[i].id)) = 1
              /\ \A pl \in PlacesOf(view.entries[i].id) :
                    /\ groupedEntries[pl[1]].key = view.entries[i].full_name
                    /\ locationEntries(groupedEntries[pl[1]])[pl[2]].key
                         = view.entries[i].location

\* three entries were fetched: Bob's first, and of Ann's two locations the
\* later one in the alphabet first
C20_Witness ==
    /\ OnActivity
    /\ Len(view.entries) = 3
    /\ view.entries[1].full_name = "Bob"
    /\ view.entries[2].full_name = "Ann" /\ view.entries[2].location = "Oak Ave"
    /\ view.entries[3].full_name = "Ann" /\ view.entries[3].location = "Elm St"
    /\ Len(groupedEntries) = 2

-----------------------------------------------------------------------------
(* Claims about the admin page *)

\* a step that changes one filter of the panel and nothing else of it, and
\* raises no alert
FilterSelected ==
    /\ OnAdmin
    /\ view'.alert = ""
    /\ view'.startDate = view.startDate
    /\ view'.endDate = view.endDate
    /\ (view'.personFilter # view.personFilter)
          # (view'.locationFilter # view.locationFilter)

\* C22: after the admin selects an employee or a location in the filter
\* panel, the listed time entries are exactly the entries of the date range
\* that match the filters now selected.
C22_ListMatchesSelectedFilters ==
    [][FilterSelected =>
          view'.timeEntries
             = adminSelect(view'.startDate, view'.endDate, view'.personFilter,
                           view'.locationFilter)]_vars

\* C24: every stored time entry with is_full_day = true has start_time
\* 08:00 and end_time 16:30, whatever the form entry held and whatever the
\* admin edited.
C24_FullDaySentinels ==
    \A k \in DOMAIN time_entries :
        time_entries[k].is_full_day =>
            /\ time_entries[k].start_time = <<8, 0>>
            /\ time_entries[k].end_time = <<16, 30>>

\* a full day written by the form from an entry holding 09:00 - 17:30 is
\* stored next to a row that was a full day until the admin changed its
\* start time
C24_Witness ==
    /\ view.activeTab = "admin"
    /\ \E k \in DOMAIN time_entries :
          /\ time_entries[k].is_full_day
          /\ time_entries[k].start_time = <<8, 0>>
    /\ \E k \in DOMAIN time_entries :
          /\ ~time_entries[k].is_full_day
          /\ time_entries[k].start_time = <<9, 0>>
          /\ time_entries[k].end_time = <<16, 30>>

-----------------------------------------------------------------------------
(* Claims about the CSV files *)

\* the positions of the commas of a line that separate cells: those with an
\* even number of double quotes before them
Separators(line) ==
    {i \in DOMAIN line :
        /\ line[i] = ","
        /\ Cardinality({j \in 1..(i - 1) : line[j] = "\""}) % 2 = 0}

\* the number of cells of a line
CellCount(line) == Cardinality(Separators(line)) + 1

\* cell k of a line as it is written, quotes included
RawCell(line, k) ==
    LET seps == Separators(line)
        before(i) == Cardinality({s \in seps : s < i})
        from == IF k = 1 THEN 1
                ELSE (CHOOSE s \in seps : before(s) = k - 2) + 1
        to == IF k = CellCount(line) THEN Len(line)
              ELSE (CHOOSE s \in seps : before(s) = k - 1) - 1
    IN  SubSeq(line, from, to)

\* the column names of the file of a page
HeadersOf(by) ==
    IF by = "activity" THEN activityHeaders
    ELSE IF by = "admin" THEN adminHeaders
    ELSE invoiceHeaders

\* the first row names the columns, in quotes or not, and every later row
\* has as many cells
HeaderThenRows ==
    LET headers == HeadersOf(csvFile.by)
        first == csvFile.lines[1]
    IN  /\ CellCount(first) = Len(headers)
        /\ \A k \in DOMAIN headers :
              RawCell(first, k) \in {<<headers[k]>>, <<"\"", headers[k], "\"">>}
        /\ \A k \in 2..Len(csvFile.lines) :
              CellCount(csvFile.lines[k]) = CellCount(first)

\* C21: in every CSV file the application produces (activity report, admin
\* time-entry export, invoice export) the first row is the header row naming
\* each column, and every data row that follows has as many cells as it.
C21_HeaderRowThenEqualRows == csvFile.by # "none" => HeaderThenRows

\* the files of the activity report and of the admin export are a header
\* row and rows of its width
ActivityAndAdminFilesWellFormed ==
    csvFile.by \in {"activity", "admin"} => HeaderThenRows

\* the entries the rows of the detailed section describe, one per row
RECURSIVE DescribedEntries(_)
DescribedEntries(es) ==
    IF es = <<>> THEN <<>>
    ELSE [k \in 1..(IF Len(Head(es).expenses) > 0 THEN Len(Head(es).expenses) ELSE 1)
            |-> Head(es)]
           \o DescribedEntries(Tail(es))

\* the line of the header row of the detailed section
DetailHeaderLine == 7 + Len(locationSummary.employeeHours) + 3

\* C29: in the invoice CSV the Hours cell of every row of the detailed
\* time-entries section is the duration of the time entry the row describes.
C29_HoursCellIsEntryDuration ==
    [][(csvFile.by = "none" /\ csvFile'.by = "invoice") =>
          LET described == DescribedEntries(locationSummary.entries)
          IN  \A i \in DOMAIN described :
                 RawCell(csvFile'.lines[DetailHeaderLine + i], 6)
                    = <<"\"">> \o toFixedText(toFixed2(invoiceMinutes(described[i])))
                         \o <<"\"">>]_vars

-----------------------------------------------------------------------------
(* Claims about the lunch break of the entry form *)

\* C23: in every reachable state of the entry form each entry has
\* lunch_break non-null exactly when has_lunch_break is true, a non-null
\* lunch_break is one of 00:30, 00:45, 01:00, and the lunch_break written
\* at submission is null exactly when has_lunch_break is false.
C23_LunchBreakIffChecked ==
    /\ \A i \in DOMAIN entries :
          /\ (entries[i].lunch_break # Null) = entries[i].has_lunch_break
          /\ entries[i].lunch_break \in LUNCH_BREAK_OPTIONS \cup {Null}
    /\ sub.pc = "insert_entry" =>
          /\ (sub.req.lunch_break = Null) = ~batch[sub.idx].has_lunch_break
          /\ sub.req.lunch_break \in LUNCH_BREAK_OPTIONS \cup {Null}
    /\ \A k \in DOMAIN time_entries :
          time_entries[k].lunch_break \in LUNCH_BREAK_OPTIONS \cup {Null}

\* a batch of an entry whose lunch checkbox was cleared and an entry with a
\* lunch of 45 minutes has been written
C23_Witness ==
    /\ \E k \in DOMAIN time_entries : time_entries[k].lunch_break = Null
    /\ \E k \in DOMAIN time_entries : time_entries[k].lunch_break = <<0, 45>>

-----------------------------------------------------------------------------
(* Claims about the overhead percentage and the versions of an estimate *)

\* the text is no percentage: parseFloat gives NaN or a negative number
NoPercentage(text) == parseFloat(text).isNaN \/ parseFloat(text).value < 0

\* C25: on the estimate worksheet overheadPercentage is always a number
\* >= 0; an input that is not a number or is negative leaves it unchanged
\* and is replaced by the current value on blur.
C25_OverheadNeverNegative ==
    [][/\ worksheet.overheadPercentage >= 0
       /\ worksheet'.overheadPercentage >= 0
       /\ (worksheet'.overheadInput # worksheet.overheadInput
             /\ NoPercentage(worksheet'.overheadInput)) =>
               worksheet'.overheadPercentage = worksheet.overheadPercentage
       /\ (handleOverheadBlur /\ NoPercentage(worksheet.overheadInput)) =>
               /\ worksheet'.overheadPercentage = worksheet.overheadPercentage
               /\ worksheet'.overheadInput
                     = toStringText(worksheet.overheadPercentage)
       /\ (NoPercentage(worksheet.overheadInput)
             /\ worksheet'.overheadInput = worksheet.overheadInput) =>
               worksheet'.overheadPercentage = worksheet.overheadPercentage]_vars

\* an estimate saved with 12.5% has been loaded again after the overhead
\* field held -5
C25_Witness ==
    /\ worksheet.currentEstimateId # NoId
    /\ worksheet.overheadPercentage = 1250
    /\ worksheet.overheadInput = <<"1", "2", ".", "5">>
    /\ \E k \in DOMAIN estimate_worksheets :
          /\ estimate_worksheets[k].id = worksheet.currentEstimateId
          /\ estimate_worksheets[k].overhead_percentage = 1250

\* the versions of the saved estimates whose name without its version is
\* the base name
Lineage(savedEstimates, base) ==
    {IF savedEstimates[k].job_name.version # 0
     THEN savedEstimates[k].job_name.version ELSE 1 :
        k \in {j \in DOMAIN savedEstimates : savedEstimates[j].job_name.base = base}}

\* Save As is clicked
SaveAsClicked == ~worksheet.showSaveAsModal /\ worksheet'.showSaveAsModal

\* C26: the version Save As proposes for the base name b is 1 + the highest
\* version among the saved estimates whose name without " vN" is b (no
\* suffix counting as 1), and 2 when there is none; estimates of another job
\* whose name merely starts with b do not influence it.
C26_NextVersionOfLineage ==
    [][SaveAsClicked =>
          LET base == worksheet.jobName.base
              lineage == Lineage(worksheet.savedEstimates, base)
          IN  /\ worksheet'.saveAsName.base = base
              /\ worksheet'.saveAsName.version
                    = IF lineage = {} THEN 2 ELSE MaxOf(lineage) + 1]_vars

-----------------------------------------------------------------------------
(* Claims about the retailer of an expense *)

\* the row an insert into expenses adds at this step
WrittenExpense == expenses'[Len(expenses')]

\* C27: the retailer_id written with an expense identifies the retailer whose
\* name is the retailer name the form showed for that expense at submission
C27_RetailerIdMatchesShownName ==
    [][Len(expenses') = Len(expenses) + 1 /\ sub.pc = "insert_expense"
          => /\ WrittenExpense.retailer_id \in DOMAIN retailers
             /\ retailers[WrittenExpense.retailer_id] = sub.expense.retailer_name]_vars

\* the same where no retailer was picked from the dropdown
TypedRetailerIsLinked ==
    [][(/\ Len(expenses') = Len(expenses) + 1
        /\ sub.pc = "insert_expense"
        /\ sub.expense.retailer_id = NoId)
          => /\ WrittenExpense.retailer_id \in DOMAIN retailers
             /\ retailers[WrittenExpense.retailer_id] = sub.expense.retailer_name]_vars

-----------------------------------------------------------------------------
(* Claims about saving a worksheet *)

\* the write whose insert added a row at this step
InsertedWrite ==
    CHOOSE w \in {estWrite[k] : k \in DOMAIN estWrite} :
        w.n = estimate_worksheets'[Len(estimate_worksheets')].id

\* C28: a Save inserts a row only for a worksheet that has no row yet (no id
\* is recorded for it), and a Save of a worksheet with a recorded id updates
\* that row, whatever writes are in flight
C28_SaveInsertsOnce ==
    [][/\ (/\ Len(estimate_worksheets') = Len(estimate_worksheets) + 1
           /\ InsertedWrite.by = "saveEstimate"
           /\ InsertedWrite.current)
          => worksheet.currentEstimateId = NoId
       /\ (/\ Len(estWrite') = Len(estWrite) + 1
           /\ estWrite'[Len(estWrite')].by = "saveEstimate"
           /\ worksheet.currentEstimateId # NoId)
          => estWrite'[Len(estWrite')].id = worksheet.currentEstimateId]_vars

-----------------------------------------------------------------------------
(* Claims about the submission in progress *)

\* the submit control: <button type="submit" disabled={isSubmitting}>
submitDisabled == isSubmitting

\* C30: isSubmitting is true exactly while the write loop of a submission
\* runs, no submission starts while the submit control is disabled, and every
\* started submission sets isSubmitting back to false
C30_OneSubmissionThatEnds ==
    /\ [](isSubmitting <=> sub.pc # "idle")
    /\ [][submitDisabled => ~(\E confirmed \in BOOLEAN : handleSubmit(confirmed))]_vars
    /\ (isSubmitting ~> ~isSubmitting)

\* a submission failed after its entry was written, and is over
C30_Witness ==
    /\ ~isSubmitting
    /\ time_entries # <<>>
    /\ alerts # <<>>
    /\ alerts[Len(alerts)] = "Failed to submit entries. Please try again."

=============================================================================
